---- MODULE Spec2Model ----
(***************************************************************************)
(* Model of the OpenAI code-generation service (openai.service.ts) and of  *)
(* the automatic navigation service (auto-navigation.service.ts).          *)
(*                                                                         *)
(* Texts are TLA+ strings and every regular expression of the source is    *)
(* translated into a character-level matcher over them, so extraction,     *)
(* classification and name conversion are computed, not assumed.           *)
(***************************************************************************)
EXTENDS Integers, Sequences, FiniteSets, TLC

(***************************************************************************)
(* Bounds of the model.                                                    *)
(***************************************************************************)
\* Number of pieces (fenced blocks, loose class definitions, prose) an LLM
\* response is assembled from.
MaxPieces == 2

\* Number of views a project may hold.
MaxViews == 3

\* Number of UI elements the array of an LLM answer may list.
MaxElements == 2

(***************************************************************************)
(* JavaScript string primitives.                                           *)
(***************************************************************************)
Min(a, b) == IF a < b THEN a ELSE b

Max(a, b) == IF a > b THEN a ELSE b

\* s.charAt(i - 1): the one-character string at 1-based position i, "" outside.
CharAt(s, i) == IF i >= 1 /\ i <= Len(s) THEN SubSeq(s, i, i) ELSE ""

\* s.substring(i - 1): the rest of s from 1-based position i.
From(s, i) == IF i > Len(s) THEN "" ELSE SubSeq(s, Max(i, 1), Len(s))

\* s.substring(0, n).
Substring0(s, n) == IF n <= 0 THEN "" ELSE SubSeq(s, 1, Min(n, Len(s)))

\* s.startsWith(sub, i - 1).
StartsAt(s, sub, i) ==
    /\ i >= 1
    /\ i + Len(sub) - 1 <= Len(s)
    /\ SubSeq(s, i, i + Len(sub) - 1) = sub

\* s.indexOf(sub, from - 1) + 1: the first 1-based position >= from where sub
\* occurs in s, 0 when there is none.
IndexOf(s, sub, from) ==
    LET at == {i \in Max(from, 1)..(Len(s) - Len(sub) + 1) : SubSeq(s, i, i + Len(sub) - 1) = sub}
    IN  IF at = {} THEN 0 ELSE CHOOSE i \in at : \A j \in at : i <= j

\* s.includes(sub).
Includes(s, sub) == IndexOf(s, sub, 1) > 0

UpperLetters == "ABCDEFGHIJKLMNOPQRSTUVWXYZ"

LowerLetters == "abcdefghijklmnopqrstuvwxyz"

DigitChars == "0123456789"

UpperSet == {SubSeq(UpperLetters, i, i) : i \in 1..Len(UpperLetters)}

LowerSet == {SubSeq(LowerLetters, i, i) : i \in 1..Len(LowerLetters)}

DigitSet == {SubSeq(DigitChars, i, i) : i \in 1..Len(DigitChars)}

IsUpper(c) == c \in UpperSet

IsLower(c) == c \in LowerSet

IsDigit(c) == c \in DigitSet

\* The regular-expression class \s (the texts of the model hold spaces,
\* newlines and tabs only).
IsSpace(c) == c \in {" ", "\n", "\t"}

\* The regular-expression class \w.
IsWord(c) == IsUpper(c) \/ IsLower(c) \/ IsDigit(c) \/ c = "_"

\* The class [\w-] of the suffix patterns.
IsNameChar(c) == IsWord(c) \/ c = "-"

\* The class [\w\/-] of the generic dart-file pattern.
IsPathChar(c) == IsWord(c) \/ c = "-" \/ c = "/"

\* One character of toLowerCase() / toUpperCase().
LowerOf == [c \in UpperSet |-> CharAt(LowerLetters, IndexOf(UpperLetters, c, 1))]

UpperOf == [c \in LowerSet |-> CharAt(UpperLetters, IndexOf(LowerLetters, c, 1))]

LowerChar(c) == IF IsUpper(c) THEN LowerOf[c] ELSE c

UpperChar(c) == IF IsLower(c) THEN UpperOf[c] ELSE c

RECURSIVE ToLowerCase(_)
ToLowerCase(s) == IF s = "" THEN "" ELSE LowerChar(CharAt(s, 1)) \o ToLowerCase(From(s, 2))

\* The end (exclusive) of the greedy run [\s\n]* starting at position i.
RECURSIVE SkipSpace(_, _)
SkipSpace(s, i) == IF i <= Len(s) /\ IsSpace(CharAt(s, i)) THEN SkipSpace(s, i + 1) ELSE i

\* The end (exclusive) of the greedy run \w* starting at position i.
RECURSIVE SkipWord(_, _)
SkipWord(s, i) == IF i <= Len(s) /\ IsWord(CharAt(s, i)) THEN SkipWord(s, i + 1) ELSE i

\* The end (exclusive) of the greedy run [\w-]* starting at position i.
RECURSIVE SkipName(_, _)
SkipName(s, i) == IF i <= Len(s) /\ IsNameChar(CharAt(s, i)) THEN SkipName(s, i + 1) ELSE i

\* The end (exclusive) of the greedy run [\w\/-]* starting at position i.
RECURSIVE SkipPath(_, _)
SkipPath(s, i) == IF i <= Len(s) /\ IsPathChar(CharAt(s, i)) THEN SkipPath(s, i + 1) ELSE i

\* The end (exclusive) of the greedy run .* starting at position i: "." stops
\* at a line terminator.
EndOfLine(s, i) == LET n == IndexOf(s, "\n", i) IN IF n = 0 THEN Len(s) + 1 ELSE n

\* s.trim().
RECURSIVE TrimEnd(_)
TrimEnd(s) ==
    IF s # "" /\ IsSpace(CharAt(s, Len(s))) THEN TrimEnd(Substring0(s, Len(s) - 1)) ELSE s

Trim(s) == TrimEnd(From(s, SkipSpace(s, 1)))

\* s.replace(sub, by) with a string pattern: the first occurrence only.
ReplaceFirst(s, sub, by) ==
    LET i == IndexOf(s, sub, 1)
    IN  IF i = 0 THEN s ELSE Substring0(s, i - 1) \o by \o From(s, i + Len(sub))

\* s.endsWith(sub).
EndsWith(s, sub) == Len(sub) <= Len(s) /\ From(s, Len(s) - Len(sub) + 1) = sub

(***************************************************************************)
(* Fenced code blocks.  A TLA+ string literal cannot hold the backtick, so *)
(* the character "~" stands for it throughout: Fence is the markdown fence *)
(* and DartFence the fence that opens a dart block.  No text of the model  *)
(* uses "~" for anything else.                                             *)
(***************************************************************************)
Fence == "~~~"

DartFence == "~~~dart"

NoMatch == [ok |-> FALSE]

\* text.replace(/```dart[\s\n]*\/\/[\s\n]*.*[\s\n]*/g, ''): every dart fence
\* that is followed by a // comment goes, with that comment line and the
\* white space after it.  The text before position `from` is already copied.
RECURSIVE StripFenceComments(_, _)
StripFenceComments(s, from) ==
    LET i == IndexOf(s, DartFence, from)
    IN  IF i = 0 THEN From(s, from)
        ELSE LET p1 == SkipSpace(s, i + Len(DartFence))
             IN  IF StartsAt(s, "//", p1)
                 THEN LET p2 == SkipSpace(s, p1 + 2)
                          e  == SkipSpace(s, EndOfLine(s, p2))
                      IN  SubSeq(s, from, i - 1) \o StripFenceComments(s, e)
                 ELSE SubSeq(s, from, i) \o StripFenceComments(s, i + 1)

\* text.replace(/```dart[\s\n]*/g, '').
RECURSIVE StripDartFences(_, _)
StripDartFences(s, from) ==
    LET i == IndexOf(s, DartFence, from)
    IN  IF i = 0 THEN From(s, from)
        ELSE SubSeq(s, from, i - 1) \o StripDartFences(s, SkipSpace(s, i + Len(DartFence)))

\* text.replace(/```$/g, ''): without the m flag $ is the end of the input.
StripFinalFence(s) == IF EndsWith(s, Fence) THEN Substring0(s, Len(s) - Len(Fence)) ELSE s

extractCodeContent(codeBlock) ==
    Trim(StripFinalFence(StripDartFences(StripFenceComments(codeBlock, 1), 1)))

(***************************************************************************)
(* extractFileBlocks: the six filename patterns, numbered as the index of  *)
(* the `patterns` array.                                                   *)
(***************************************************************************)
MainPattern == 0

GenericPattern == 5

PatternIndexes == <<0, 1, 2, 3, 4, 5>>

\* The literal that pattern i requires at the end of the filename stem.
PatternSuffix(i) ==
    CASE i = 1 -> "_screen"
      [] i = 2 -> "_widget"
      [] i = 3 -> "_model"
      [] i = 4 -> "_service"
      [] OTHER -> ""

\* The filename part of pattern i tried at position p: the position after it
\* and the text of its capture group (pattern 0 has no group: undefined).
\*   0: main\.dart   1..4: ([\w-]+_screen\.dart) ...   5: ([\w\/-]+\.dart)
FileNameAt(text, p, i) ==
    IF i = MainPattern
    THEN IF StartsAt(text, "main.dart", p)
         THEN [ok |-> TRUE, to |-> p + Len("main.dart"), hasGroup |-> FALSE, group |-> ""]
         ELSE NoMatch
    ELSE LET e == IF i = GenericPattern THEN SkipPath(text, p) ELSE SkipName(text, p)
             run == SubSeq(text, p, e - 1)
         IN  IF /\ Len(run) > Len(PatternSuffix(i))
                /\ EndsWith(run, PatternSuffix(i))
                /\ StartsAt(text, ".dart", e)
             THEN [ok |-> TRUE, to |-> e + Len(".dart"), hasGroup |-> TRUE,
                   group |-> run \o ".dart"]
             ELSE NoMatch

\* Pattern i tried at position s:  ```dart[\s\n]*\/\/[\s\n]*<filename>[\s\S]*?```
\* `to` is the position after the match, `block` is match[0].
BlockAt(text, s, i) ==
    IF ~StartsAt(text, DartFence, s) THEN NoMatch
    ELSE LET p1 == SkipSpace(text, s + Len(DartFence))
         IN  IF ~StartsAt(text, "//", p1) THEN NoMatch
             ELSE LET f == FileNameAt(text, SkipSpace(text, p1 + 2), i)
                  IN  IF ~f.ok THEN NoMatch
                      ELSE LET c == IndexOf(text, Fence, f.to)
                           IN  IF c = 0 THEN NoMatch
                               ELSE [ok |-> TRUE, to |-> c + Len(Fence),
                                     hasGroup |-> f.hasGroup, group |-> f.group,
                                     block |-> SubSeq(text, s, c + Len(Fence) - 1)]

\* text.matchAll(patterns[i]) from position `from`: the successive
\* non-overlapping matches, leftmost first.
RECURSIVE MatchAllBlocks(_, _, _)
MatchAllBlocks(text, i, from) ==
    LET s == IndexOf(text, DartFence, from)
    IN  IF s = 0 THEN <<>>
        ELSE LET m == BlockAt(text, s, i)
             IN  IF m.ok THEN <<m>> \o MatchAllBlocks(text, i, m.to)
                 ELSE MatchAllBlocks(text, i, s + 1)

(***************************************************************************)
(* A JavaScript Map<string, string> is a sequence of [name, code] entries  *)
(* in insertion order; set() on a present key keeps the key's place.       *)
(***************************************************************************)
MapHas(blocks, name) == \E j \in 1..Len(blocks) : blocks[j].name = name

MapGet(blocks, name) == blocks[CHOOSE j \in 1..Len(blocks) : blocks[j].name = name].code

MapSet(blocks, name, code) ==
    IF MapHas(blocks, name)
    THEN [j \in 1..Len(blocks) |->
            IF blocks[j].name = name THEN [name |-> name, code |-> code] ELSE blocks[j]]
    ELSE Append(blocks, [name |-> name, code |-> code])

MapKeys(blocks) == [j \in 1..Len(blocks) |-> blocks[j].name]

\* The body of the loop over text.matchAll(pattern), for the matches ms[j..]:
\* a match without capture group (the main.dart pattern) or with an empty
\* name is skipped, main.dart is not taken twice, and every other match is
\* stored under its filename with blocks.set.
RECURSIVE StoreMatches(_, _, _)
StoreMatches(blocks, ms, j) ==
    IF j > Len(ms) THEN blocks
    ELSE LET m == ms[j]
             fileName == IF m.hasGroup THEN Trim(m.group) ELSE ""
         IN  IF fileName = "" THEN StoreMatches(blocks, ms, j + 1)
             ELSE IF fileName = "main.dart" /\ MapHas(blocks, "main.dart")
                  THEN StoreMatches(blocks, ms, j + 1)
                  ELSE StoreMatches(MapSet(blocks, fileName, extractCodeContent(m.block)),
                                    ms, j + 1)

\* for (let i = ...; i < patterns.length; i++): patterns k, k+1, ... in turn.
RECURSIVE ScanPatterns(_, _, _)
ScanPatterns(text, blocks, k) ==
    IF k > Len(PatternIndexes) THEN blocks
    ELSE ScanPatterns(text,
                      StoreMatches(blocks, MatchAllBlocks(text, PatternIndexes[k], 1), 1),
                      k + 1)

\* Array.from(text.matchAll(/```dart[\s\S]*?```/g)): every dart fence up to
\* the next fence, whatever follows it.
RECURSIVE DartBlocks(_, _)
DartBlocks(text, from) ==
    LET s == IndexOf(text, DartFence, from)
        c == IF s = 0 THEN 0 ELSE IndexOf(text, Fence, s + Len(DartFence))
    IN  IF c = 0 THEN <<>>
        ELSE <<SubSeq(text, s, c + Len(Fence) - 1)>> \o DartBlocks(text, c + Len(Fence))

inferFileNameFromContent(content, index) ==
    IF Includes(content, "void main()") \/ Includes(content, "runApp(") THEN "main.dart"
    ELSE IF Includes(content, "StatefulWidget") \/ Includes(content, "StatelessWidget")
    THEN IF Includes(content, "Screen") \/ Includes(content, "Page")
         THEN "screen_" \o ToString(index) \o ".dart"
         ELSE "widget_" \o ToString(index) \o ".dart"
    ELSE IF Includes(content, "class") /\ ~Includes(content, "extends")
    THEN "model_" \o ToString(index) \o ".dart"
    ELSE IF Includes(content, "service") \/ Includes(content, "Service")
            \/ Includes(content, "Repository")
    THEN "service_" \o ToString(index) \o ".dart"
    ELSE "file_" \o ToString(index) \o ".dart"

\* The loop over the generic dart blocks ds[j..]; the index handed to
\* inferFileNameFromContent counts from 0.
RECURSIVE StoreGeneric(_, _, _)
StoreGeneric(blocks, ds, j) ==
    IF j > Len(ds) THEN blocks
    ELSE LET dartContent == extractCodeContent(ds[j])
         IN  StoreGeneric(MapSet(blocks, inferFileNameFromContent(dartContent, j - 1),
                                 dartContent),
                          ds, j + 1)

\* extractFileBlocks(text, blocks) on an empty map: the map it leaves.
extractFileBlocks(text) ==
    LET mainAppMatch == LET ms == MatchAllBlocks(text, MainPattern, 1)
                        IN  IF ms = <<>> THEN NoMatch ELSE ms[1]
        withMain == IF mainAppMatch.ok
                    THEN MapSet(<<>>, "main.dart", extractCodeContent(mainAppMatch.block))
                    ELSE <<>>
        named    == ScanPatterns(text, withMain, IF mainAppMatch.ok THEN 2 ELSE 1)
    IN  IF Len(named) = 0 THEN StoreGeneric(named, DartBlocks(text, 1), 1) ELSE named

(***************************************************************************)
(* processCodeBlocks: the classifier.  The bundle under construction is a  *)
(* record of the four arrays, the main entry and the processedFiles map    *)
(* (its keys).                                                             *)
(***************************************************************************)
NoMainApp == [defined |-> FALSE, code |-> ""]

MainAppOf(code) == [defined |-> TRUE, code |-> code]

EmptyBundle ==
    [screens |-> <<>>, widgets |-> <<>>, models |-> <<>>, services |-> <<>>,
     mainApp |-> NoMainApp, processedFiles |-> {}]

\* A classifier that consults the content heuristics only.
categoryByContent(fileName, codeContent) ==
    IF Includes(codeContent, "StatefulWidget") \/ Includes(codeContent, "StatelessWidget")
    THEN IF Includes(codeContent, "Screen") \/ Includes(codeContent, "Page")
         THEN "screen" ELSE "widget"
    ELSE IF Includes(codeContent, "class") /\ ~Includes(codeContent, "extends") THEN "model"
    ELSE IF Includes(codeContent, "Service") \/ Includes(codeContent, "Provider")
            \/ Includes(codeContent, "Repository")
    THEN "service"
    ELSE "none"

\* A classifier that tries the model rule before the screen rule.
categoryOfModelFirst(fileName, codeContent) ==
    IF Includes(fileName, "_model") \/ Includes(fileName, "model") THEN "model"
    ELSE IF Includes(fileName, "_screen") \/ Includes(fileName, "page") THEN "screen"
    ELSE IF Includes(fileName, "_widget")
            \/ (Includes(fileName, "widget") /\ ~Includes(fileName, "screen"))
    THEN "widget"
    ELSE IF Includes(fileName, "_service") \/ Includes(fileName, "service")
            \/ Includes(fileName, "provider")
    THEN "service"
    ELSE categoryByContent(fileName, codeContent)

\* The category the if / else-if chain pushes a block into ("none": marked
\* processed and added to no array).
categoryOf(fileName, codeContent) ==
    IF Includes(fileName, "_screen") \/ Includes(fileName, "page") THEN "screen"
    ELSE IF Includes(fileName, "_widget")
            \/ (Includes(fileName, "widget") /\ ~Includes(fileName, "screen"))
    THEN "widget"
    ELSE IF Includes(fileName, "_model") \/ Includes(fileName, "model") THEN "model"
    ELSE IF Includes(fileName, "_service") \/ Includes(fileName, "service")
            \/ Includes(fileName, "provider")
    THEN "service"
    ELSE IF Includes(codeContent, "StatefulWidget") \/ Includes(codeContent, "StatelessWidget")
    THEN IF Includes(codeContent, "Screen") \/ Includes(codeContent, "Page")
         THEN "screen" ELSE "widget"
    ELSE IF Includes(codeContent, "class") /\ ~Includes(codeContent, "extends") THEN "model"
    ELSE IF Includes(codeContent, "Service") \/ Includes(codeContent, "Provider")
            \/ Includes(codeContent, "Repository")
    THEN "service"
    ELSE "none"

\* A loop iteration that does not consult processedFiles.
classifyEntryUnmarked(b, fileName, codeContent) ==
    IF fileName = "main.dart" THEN b
    ELSE LET name == ReplaceFirst(fileName, ".dart", "")
             cat  == categoryOf(fileName, codeContent)
         IN  CASE cat = "screen" ->
                    [b EXCEPT !.screens = Append(@, [name |-> name, code |-> codeContent])]
               [] cat = "widget" ->
                    [b EXCEPT !.widgets = Append(@, [name |-> name, dartCode |-> codeContent])]
               [] cat = "model" ->
                    [b EXCEPT !.models = Append(@, [name |-> name, code |-> codeContent])]
               [] cat = "service" ->
                    [b EXCEPT !.services = Append(@, [name |-> name, code |-> codeContent])]
               [] OTHER -> b

\* One iteration of the loop over codeBlocks.entries().
classifyEntry(b, fileName, codeContent) ==
    IF fileName \in b.processedFiles \/ fileName = "main.dart" THEN b
    ELSE LET name == ReplaceFirst(fileName, ".dart", "")
             cat  == categoryOf(fileName, codeContent)
             done == [b EXCEPT !.processedFiles = @ \cup {fileName}]
         IN  CASE cat = "screen" ->
                    [done EXCEPT !.screens = Append(@, [name |-> name, code |-> codeContent])]
               [] cat = "widget" ->
                    [done EXCEPT !.widgets = Append(@, [name |-> name, dartCode |-> codeContent])]
               [] cat = "model" ->
                    [done EXCEPT !.models = Append(@, [name |-> name, code |-> codeContent])]
               [] cat = "service" ->
                    [done EXCEPT !.services = Append(@, [name |-> name, code |-> codeContent])]
               [] OTHER -> done

RECURSIVE classifyEntries(_, _, _)
classifyEntries(b, codeBlocks, j) ==
    IF j > Len(codeBlocks) THEN b
    ELSE classifyEntries(classifyEntry(b, codeBlocks[j].name, codeBlocks[j].code),
                         codeBlocks, j + 1)

\* processCodeBlocks(codeBlocks, processedFiles, screens, widgets, models,
\* services) on the arrays and the map held in b.  The local mainApp starts
\* undefined on every call; an empty main.dart is falsy and leaves it so.
processCodeBlocks(codeBlocks, b) ==
    LET hasMain == MapHas(codeBlocks, "main.dart") /\ MapGet(codeBlocks, "main.dart") # ""
        start == IF hasMain
                 THEN [b EXCEPT !.mainApp = MainAppOf(MapGet(codeBlocks, "main.dart")),
                                !.processedFiles = @ \cup {"main.dart"}]
                 ELSE [b EXCEPT !.mainApp = NoMainApp]
    IN  classifyEntries(start, codeBlocks, 1)

(***************************************************************************)
(* Name conversions of the code-generation service.                        *)
(***************************************************************************)
\* text.replace(/([A-Z])/g, '_$1').toLowerCase(), before the leading "_" goes.
RECURSIVE UnderscoreUpper(_)
UnderscoreUpper(s) ==
    IF s = "" THEN ""
    ELSE LET c == CharAt(s, 1)
         IN  (IF IsUpper(c) THEN "_" \o LowerChar(c) ELSE LowerChar(c))
             \o UnderscoreUpper(From(s, 2))

\* A conversion that keeps a run of capitals together as one word.
RECURSIVE UnderscoreWordStarts(_, _)
UnderscoreWordStarts(s, afterUpper) ==
    IF s = "" THEN ""
    ELSE LET c == CharAt(s, 1)
         IN  (IF IsUpper(c) /\ ~afterUpper THEN "_" \o LowerChar(c) ELSE LowerChar(c))
             \o UnderscoreWordStarts(From(s, 2), IsUpper(c))

toSnakeCaseAcronyms(text) ==
    LET u == UnderscoreWordStarts(text, FALSE)
    IN  IF StartsAt(u, "_", 1) THEN From(u, 2) ELSE u

toSnakeCase(text) ==
    LET u == UnderscoreUpper(text) IN IF StartsAt(u, "_", 1) THEN From(u, 2) ELSE u

\* text.split('_').map(word => word.charAt(0).toUpperCase() + word.slice(1)).join(''):
\* the underscores go and the first character of every word is upper-cased.
RECURSIVE CapitalizeWords(_, _)
CapitalizeWords(s, atWordStart) ==
    IF s = "" THEN ""
    ELSE LET c == CharAt(s, 1)
         IN  IF c = "_" THEN CapitalizeWords(From(s, 2), TRUE)
             ELSE (IF atWordStart THEN UpperChar(c) ELSE c)
                  \o CapitalizeWords(From(s, 2), FALSE)

toPascalCase(text) == IF text = "" THEN "" ELSE CapitalizeWords(text, TRUE)

(***************************************************************************)
(* generateMainApp: the synthesized main.dart.                             *)
(***************************************************************************)
PlaceholderHome == "const Center(child: Text(\"Pantalla principal\"))"

\* A synthesizer that takes the last screen for home.
generateMainAppLast(screens) ==
    LET last == IF Len(screens) > 0 THEN screens[Len(screens)].name ELSE ""
    IN  MainAppOf(
            "import 'package:flutter/material.dart';\n"
         \o (IF Len(screens) > 0 THEN "import '" \o toSnakeCase(last) \o ".dart';" ELSE "")
         \o "\n\nvoid main() {\n  runApp(const MyApp());\n}\n\n"
         \o "class MyApp extends StatelessWidget {\n"
         \o "  const MyApp({Key? key}) : super(key: key);\n\n"
         \o "  @override\n  Widget build(BuildContext context) {\n"
         \o "    return MaterialApp(\n      title: 'Flutter Demo',\n"
         \o "      home: "
         \o (IF Len(screens) > 0 THEN toPascalCase(last) \o "()" ELSE PlaceholderHome)
         \o ",\n    );\n  }\n}")

generateMainApp(screens) ==
    LET homeScreenImport ==
            IF Len(screens) > 0
            THEN "import '" \o toSnakeCase(screens[1].name) \o ".dart';" ELSE ""
        homeScreenWidget ==
            IF Len(screens) > 0 THEN toPascalCase(screens[1].name) \o "()" ELSE PlaceholderHome
    IN  MainAppOf(
            "import 'package:flutter/material.dart';\n"
         \o homeScreenImport \o "\n"
         \o "\n"
         \o "void main() {\n"
         \o "  runApp(const MyApp());\n"
         \o "}\n"
         \o "\n"
         \o "class MyApp extends StatelessWidget {\n"
         \o "  const MyApp({Key? key}) : super(key: key);\n"
         \o "\n"
         \o "  @override\n"
         \o "  Widget build(BuildContext context) {\n"
         \o "    return MaterialApp(\n"
         \o "      title: 'Flutter Demo',\n"
         \o "      theme: ThemeData(\n"
         \o "        primarySwatch: Colors.blue,\n"
         \o "        visualDensity: VisualDensity.adaptivePlatformDensity,\n"
         \o "      ),\n"
         \o "      home: " \o homeScreenWidget \o ",\n"
         \o "    );\n"
         \o "  }\n"
         \o "}")

(***************************************************************************)
(* extractWithExtendedPatterns: the fallback extractor and its patterns.   *)
(***************************************************************************)
\* The largest member of a non-empty set of numbers, 0 for the empty set.
MaxOf(S) == IF S = {} THEN 0 ELSE CHOOSE m \in S : \A n \in S : n <= m

\* void\s+main tried at position p: the position after it, 0 for no match.
VoidMainAt(text, p) ==
    LET q == SkipSpace(text, p + Len("void"))
    IN  IF StartsAt(text, "void", p) /\ q > p + Len("void") /\ StartsAt(text, "main", q)
        THEN q + Len("main") ELSE 0

RECURSIVE FindVoidMain(_, _)
FindVoidMain(text, from) ==
    LET p == IndexOf(text, "void", from)
    IN  IF p = 0 THEN 0
        ELSE IF VoidMainAt(text, p) > 0 THEN VoidMainAt(text, p)
        ELSE FindVoidMain(text, p + 1)

\* responseText.match(/```dart[\s\S]*?void\s+main[\s\S]*?runApp[\s\S]*?```/):
\* every gap is [\s\S]*?, so the match starts at the first dart fence and
\* runs over the first "void main" after it, the first "runApp" after that
\* and the first fence after that; match[0] is returned, "" for no match.
FallbackMainBlock(text) ==
    LET s == IndexOf(text, DartFence, 1)
        v == IF s = 0 THEN 0 ELSE FindVoidMain(text, s + Len(DartFence))
        r == IF v = 0 THEN 0 ELSE IndexOf(text, "runApp", v)
        c == IF r = 0 THEN 0 ELSE IndexOf(text, Fence, r + Len("runApp"))
    IN  IF c = 0 THEN "" ELSE SubSeq(text, s, c + Len(Fence) - 1)

\* class\s+\w+ tried at position p (the second alternative of the lookahead
\* of the model and service patterns).
ClassWordAt(text, p) ==
    LET q == SkipSpace(text, p + Len("class"))
    IN  StartsAt(text, "class", p) /\ q > p + Len("class") /\ IsWord(CharAt(text, q))

\* class\s+\w+\s+extends tried at position p (the second alternative of the
\* lookahead of the widget patterns).
ClassExtendsAt(text, p) ==
    /\ ClassWordAt(text, p)
    /\ LET q2 == SkipWord(text, SkipSpace(text, p + Len("class")))
           q3 == SkipSpace(text, q2)
       IN  q3 > q2 /\ StartsAt(text, "extends", q3)

\* [\s\S]*?(?=```|class\s+\w+\s+extends) from position p: the first position
\* at or after p where the lookahead holds, 0 when there is none.
RECURSIVE NextClassExtends(_, _)
NextClassExtends(text, from) ==
    LET p == IndexOf(text, "class", from)
    IN  IF p = 0 THEN 0
        ELSE IF ClassExtendsAt(text, p) THEN p ELSE NextClassExtends(text, p + 1)

RECURSIVE NextClassWord(_, _)
NextClassWord(text, from) ==
    LET p == IndexOf(text, "class", from)
    IN  IF p = 0 THEN 0
        ELSE IF ClassWordAt(text, p) THEN p ELSE NextClassWord(text, p + 1)

FirstOf(a, b) == IF a = 0 THEN b ELSE IF b = 0 THEN a ELSE Min(a, b)

WidgetBlockEnd(text, p) == FirstOf(IndexOf(text, Fence, p), NextClassExtends(text, p))

ClassBlockEnd(text, p) == FirstOf(IndexOf(text, Fence, p), NextClassWord(text, p))

\* class\s+(\w+)\s+extends\s+<base>[\s\S]*?(?=```|class\s+\w+\s+extends) tried
\* at position p: <<match[0], match[1]>> and the position after the match.
WidgetClassAt(text, p, base) ==
    LET q1 == SkipSpace(text, p + Len("class"))
        q2 == SkipWord(text, q1)
        q3 == SkipSpace(text, q2)
        q4 == SkipSpace(text, q3 + Len("extends"))
        t  == WidgetBlockEnd(text, q4 + Len(base))
    IN  IF /\ StartsAt(text, "class", p) /\ q1 > p + Len("class") /\ q2 > q1 /\ q3 > q2
           /\ StartsAt(text, "extends", q3) /\ q4 > q3 + Len("extends")
           /\ StartsAt(text, base, q4) /\ t > 0
        THEN [ok |-> TRUE, to |-> t, blockText |-> SubSeq(text, p, t - 1),
              className |-> SubSeq(text, q1, q2 - 1)]
        ELSE NoMatch

\* class\s+(\w+)(?!\s+extends)[\s\S]*?(?=```|class\s+\w+) tried at position p.
\* \w+ is greedy and backtracks: the name ends at the last position e of the
\* word where "\s+extends" does not follow and from where the lookahead can
\* still be met; inside the word a word character follows, so the negative
\* lookahead holds there.
ModelClassAt(text, p) ==
    LET q1 == SkipSpace(text, p + Len("class"))
        q2 == SkipWord(text, q1)
        extendsAt(e) == LET q == SkipSpace(text, e) IN q > e /\ StartsAt(text, "extends", q)
        e  == MaxOf({k \in (q1 + 1)..q2 : ~extendsAt(k) /\ ClassBlockEnd(text, k) > 0})
    IN  IF StartsAt(text, "class", p) /\ q1 > p + Len("class") /\ q2 > q1 /\ e > 0
        THEN [ok |-> TRUE, to |-> ClassBlockEnd(text, e),
              blockText |-> SubSeq(text, p, ClassBlockEnd(text, e) - 1),
              className |-> SubSeq(text, q1, e - 1)]
        ELSE NoMatch

ServiceSuffixes == <<"Service", "Provider", "Repository", "Client", "Api">>

\* The position after (?:Service|Provider|Repository|Client|Api) tried at
\* position k, 0 for no match (no two alternatives start alike).
ServiceSuffixEnd(text, k) ==
    MaxOf({k + Len(ServiceSuffixes[j]) : j \in {n \in 1..Len(ServiceSuffixes) :
                                                 StartsAt(text, ServiceSuffixes[n], k)}})

\* class\s+(\w+(?:Service|Provider|Repository|Client|Api))[\s\S]*?(?=```|class\s+\w+)
\* tried at position p: the greedy \w+ gives back characters until a suffix
\* follows it and the lookahead can be met after the suffix.
ServiceClassAt(text, p) ==
    LET q1 == SkipSpace(text, p + Len("class"))
        q2 == SkipWord(text, q1)
        k  == MaxOf({j \in (q1 + 1)..q2 :
                        /\ ServiceSuffixEnd(text, j) > 0
                        /\ ClassBlockEnd(text, ServiceSuffixEnd(text, j)) > 0})
        g  == ServiceSuffixEnd(text, k)
    IN  IF StartsAt(text, "class", p) /\ q1 > p + Len("class") /\ q2 > q1 /\ k > 0
        THEN [ok |-> TRUE, to |-> ClassBlockEnd(text, g),
              blockText |-> SubSeq(text, p, ClassBlockEnd(text, g) - 1),
              className |-> SubSeq(text, q1, g - 1)]
        ELSE NoMatch

\* The class pattern of the given kind tried at position p.
ClassAt(text, p, kind) ==
    CASE kind = "stateless" -> WidgetClassAt(text, p, "StatelessWidget")
      [] kind = "stateful"  -> WidgetClassAt(text, p, "StatefulWidget")
      [] kind = "model"     -> ModelClassAt(text, p)
      [] kind = "service"   -> ServiceClassAt(text, p)

\* findAllMatches(text, pattern): the successive matches of the class
\* pattern of the given kind, as [blockText, className] pairs.  Every match
\* holds its class name, so none is dropped for an empty group.
RECURSIVE findAllMatches(_, _, _)
findAllMatches(text, kind, from) ==
    LET p == IndexOf(text, "class", from)
    IN  IF p = 0 THEN <<>>
        ELSE LET m == ClassAt(text, p, kind)
             IN  IF m.ok THEN <<m>> \o findAllMatches(text, kind, m.to)
                 ELSE findAllMatches(text, kind, p + 1)

\* extractRelevantCode(text, 'dart'): the first ```(?:dart)?[\s\S]*?``` block
\* of the text if it has one, else the text from its first "import ", else
\* the text itself.
extractRelevantCode(text) ==
    LET s == IndexOf(text, Fence, 1)
        c == IF s = 0 THEN 0 ELSE IndexOf(text, Fence, s + Len(Fence))
        codeStart == IndexOf(text, "import ", 1)
    IN  IF c > 0 THEN extractCodeContent(SubSeq(text, s, c + Len(Fence) - 1))
        ELSE IF codeStart > 0 THEN From(text, codeStart)
        ELSE text

(***************************************************************************)
(* createErrorWidget: the placeholder widget.                              *)
(***************************************************************************)
\* The number of characters of the response quoted in the placeholder.
ExcerptLength == 500

\* The template literal up to the quoted response.
ErrorWidgetHead ==
       "\n"
    \o "        import 'package:flutter/material.dart';\n"
    \o "        \n"
    \o "        class ErrorWidget extends StatelessWidget {\n"
    \o "          const ErrorWidget({Key? key}) : super(key: key);\n"
    \o "          \n"
    \o "          @override\n"
    \o "          Widget build(BuildContext context) {\n"
    \o "            return Scaffold(\n"
    \o "              appBar: AppBar(\n"
    \o "                title: const Text('Error de Generación'),\n"
    \o "              ),\n"
    \o "              body: Padding(\n"
    \o "                padding: const EdgeInsets.all(16.0),\n"
    \o "                child: Column(\n"
    \o "                  crossAxisAlignment: CrossAxisAlignment.start,\n"
    \o "                  children: [\n"
    \o "                    const Text(\n"
    \o "                      'Error al generar código',\n"
    \o "                      style: TextStyle(fontSize: 20, fontWeight: FontWeight.bold),\n"
    \o "                    ),\n"
    \o "                    const SizedBox(height: 16),\n"
    \o "                    const Text(\n"
    \o "                      'No se pudo procesar la respuesta de la IA. Por favor intenta con otra captura o contacta al soporte.',\n"
    \o "                    ),\n"
    \o "                    const SizedBox(height: 16),\n"
    \o "                    Container(\n"
    \o "                      padding: const EdgeInsets.all(8),\n"
    \o "                      color: Colors.grey[200],\n"
    \o "                      child: Text(\n"
    \o "                        '"

\* The template literal after the quoted response.
ErrorWidgetTail ==
       "...',\n"
    \o "                        style: const TextStyle(fontFamily: 'monospace', fontSize: 12),\n"
    \o "                      ),\n"
    \o "                    )\n"
    \o "                  ],\n"
    \o "                ),\n"
    \o "              ),\n"
    \o "            );\n"
    \o "          }\n"
    \o "        }\n"
    \o "      "

\* An error widget that quotes the whole response.
createErrorWidgetWhole(widgets, responseText) ==
    Append(widgets,
           [name |-> "error_widget",
            dartCode |-> ErrorWidgetHead \o responseText \o ErrorWidgetTail])

createErrorWidget(widgets, responseText) ==
    Append(widgets,
           [name |-> "error_widget",
            dartCode |-> ErrorWidgetHead \o Substring0(responseText, ExcerptLength)
                         \o ErrorWidgetTail])

\* extractWidgetsAndScreens: the StatelessWidget matches, then the
\* StatefulWidget matches, each pushed to screens or widgets by its class name.
RECURSIVE pushWidgetBlocks(_, _, _)
pushWidgetBlocks(b, ms, j) ==
    IF j > Len(ms) THEN b
    ELSE LET code == extractRelevantCode(ms[j].blockText)
             className == ms[j].className
         IN  pushWidgetBlocks(
                 IF Includes(className, "Screen") \/ Includes(className, "Page")
                 THEN [b EXCEPT !.screens =
                          Append(@, [name |-> toSnakeCase(className), code |-> code])]
                 ELSE [b EXCEPT !.widgets =
                          Append(@, [name |-> toSnakeCase(className), dartCode |-> code])],
                 ms, j + 1)

extractWidgetsAndScreens(text, b) ==
    pushWidgetBlocks(b, findAllMatches(text, "stateless", 1)
                        \o findAllMatches(text, "stateful", 1), 1)

\* extractModels: the classes without extends whose block mentions final,
\* const or constructor.
RECURSIVE pushModelBlocks(_, _, _)
pushModelBlocks(b, ms, j) ==
    IF j > Len(ms) THEN b
    ELSE pushModelBlocks(
             IF \/ Includes(ms[j].blockText, "final") \/ Includes(ms[j].blockText, "const")
                \/ Includes(ms[j].blockText, "constructor")
             THEN [b EXCEPT !.models =
                      Append(@, [name |-> toSnakeCase(ms[j].className),
                                 code |-> extractRelevantCode(ms[j].blockText)])]
             ELSE b,
             ms, j + 1)

extractModels(text, b) == pushModelBlocks(b, findAllMatches(text, "model", 1), 1)

\* extractServices: the classes named ...Service, ...Provider, ...Repository,
\* ...Client or ...Api.
RECURSIVE pushServiceBlocks(_, _, _)
pushServiceBlocks(b, ms, j) ==
    IF j > Len(ms) THEN b
    ELSE pushServiceBlocks(
             [b EXCEPT !.services =
                 Append(@, [name |-> toSnakeCase(ms[j].className),
                            code |-> extractRelevantCode(ms[j].blockText)])],
             ms, j + 1)

extractServices(text, b) == pushServiceBlocks(b, findAllMatches(text, "service", 1), 1)

\* Whether the four arrays of a bundle are all empty.
NoArtifacts(b) ==
    Len(b.screens) = 0 /\ Len(b.widgets) = 0 /\ Len(b.models) = 0 /\ Len(b.services) = 0

\* Steps 1 to 4 of extractWithExtendedPatterns: the main.dart match and the
\* three class scans, on fresh arrays.
fallbackScan(responseText) ==
    LET mainAppMatch == FallbackMainBlock(responseText)
        b0 == [EmptyBundle EXCEPT !.mainApp =
                  IF mainAppMatch # "" THEN MainAppOf(extractCodeContent(mainAppMatch))
                  ELSE NoMainApp]
    IN  extractServices(responseText,
            extractModels(responseText, extractWidgetsAndScreens(responseText, b0)))

\* A fallback extractor that returns what the scans found, with no error
\* widget.
fallbackFinishNoPlaceholder(b, responseText) ==
    IF ~b.mainApp.defined THEN [b EXCEPT !.mainApp = generateMainApp(b.screens)] ELSE b

\* Steps 5 and 6: the error widget when nothing was found, and the generated
\* main.dart when none was matched (the mainApp object is truthy whatever
\* its code).
fallbackFinish(b, responseText) ==
    LET b5 == IF NoArtifacts(b)
              THEN [b EXCEPT !.widgets = createErrorWidget(@, responseText)] ELSE b
    IN  IF ~b5.mainApp.defined THEN [b5 EXCEPT !.mainApp = generateMainApp(b5.screens)]
        ELSE b5

extractWithExtendedPatterns(responseText) ==
    fallbackFinish(fallbackScan(responseText), responseText)

\* A test that takes the fallback whenever classification found no screen.
takesFallbackWithoutScreens(b) == Len(b.screens) = 0

(***************************************************************************)
(* processCode.                                                            *)
(***************************************************************************)
\* Whether processCode hands the response to the fallback extractor after
\* step 2: nothing in the four arrays and no main.dart.
takesFallback(b) == NoArtifacts(b) /\ ~b.mainApp.defined

\* A processCode that returns the classified bundle as it is.
withMainAppSkipped(b) == b

\* Step 4 of processCode: the generated main.dart when none was extracted.
withMainApp(b) ==
    IF ~b.mainApp.defined THEN [b EXCEPT !.mainApp = generateMainApp(b.screens)] ELSE b

(***************************************************************************)
(* AutoNavigationService (auto-navigation.service.ts).  Its name           *)
(* conversions differ from those of the code-generation service.           *)
(***************************************************************************)
\* text.replace(/\s+/g, '_'): every run of white space becomes one "_".
RECURSIVE SpacesToUnderscore(_)
SpacesToUnderscore(s) ==
    IF s = "" THEN ""
    ELSE IF IsSpace(CharAt(s, 1)) THEN "_" \o SpacesToUnderscore(From(s, SkipSpace(s, 1)))
    ELSE CharAt(s, 1) \o SpacesToUnderscore(From(s, 2))

\* The conversion without its last replace: white space stays.
navToSnakeCaseSpaced(text) == toSnakeCase(text)

navToSnakeCase(text) == SpacesToUnderscore(toSnakeCase(text))

\* text.split(/[\s_-]+/).map(word => word.charAt(0).toUpperCase()
\*   + word.slice(1).toLowerCase()).join(''): the separators go, the first
\* character of every word is upper-cased and the rest lower-cased.
RECURSIVE CapitalizeLowerWords(_, _)
CapitalizeLowerWords(s, atWordStart) ==
    IF s = "" THEN ""
    ELSE LET c == CharAt(s, 1)
         IN  IF IsSpace(c) \/ c = "_" \/ c = "-" THEN CapitalizeLowerWords(From(s, 2), TRUE)
             ELSE (IF atWordStart THEN UpperChar(c) ELSE LowerChar(c))
                  \o CapitalizeLowerWords(From(s, 2), FALSE)

navToPascalCase(text) == CapitalizeLowerWords(text, TRUE)

initialPatterns ==
    <<"login", "signin", "auth", "welcome", "onboarding",
      "splash", "home", "dashboard", "main", "inicio", "principal">>

determineIfInitial(vista, index) ==
    LET name == ToLowerCase(vista.nombre)
    IN  \/ \E k \in 1..Len(initialPatterns) : Includes(name, initialPatterns[k])
        \/ index = 0

\* The iconMap entries in insertion order.
iconMap ==
    << <<"home", "home">>, <<"login", "login">>, <<"register", "person_add">>,
       <<"profile", "person">>, <<"settings", "settings">>, <<"dashboard", "dashboard">>,
       <<"lista", "list">>, <<"principal", "home">>, <<"usuario", "person">>,
       <<"registro", "person_add">> >>

getIconForRoute(routeName) ==
    LET name == ToLowerCase(routeName)
        hits == {k \in 1..Len(iconMap) : Includes(name, iconMap[k][1])}
    IN  IF hits = {} THEN "pages"
        ELSE iconMap[CHOOSE k \in hits : \A j \in hits : k <= j][2]

\* lines.join('\n').
RECURSIVE JoinLines(_)
JoinLines(lines) ==
    IF Len(lines) = 0 THEN ""
    ELSE IF Len(lines) = 1 THEN lines[1]
    ELSE lines[1] \o "\n" \o JoinLines(Tail(lines))

\* The line each routes.map(...) of the main.dart template makes of a route.
routeLine(route, kind) ==
    CASE kind = "import" -> "import 'screens/" \o route.name \o "_screen.dart';"
      [] kind = "route"  -> "        '" \o route.path \o "': (context) => "
                            \o route.screenName \o "(),"
      [] kind = "const"  -> "  static const String " \o route.name \o " = '" \o route.path \o "';"
      [] kind = "item"   -> "    NavigationItem('" \o route.description \o "', " \o route.name
                            \o ", Icons." \o getIconForRoute(route.name) \o "),"

RECURSIVE MapRoutes(_, _)
MapRoutes(routes, kind) ==
    IF Len(routes) = 0 THEN <<>>
    ELSE <<routeLine(routes[1], kind)>> \o MapRoutes(Tail(routes), kind)

\* The default taken whatever the routes are.
initialRouteDefault(routes) == "/"

\* routes.find(r => r.isInitial)?.path || routes[0]?.path || '/'
initialRouteOf(routes) ==
    LET initial == {k \in 1..Len(routes) : routes[k].isInitial}
        found == IF initial = {} THEN ""
                 ELSE routes[CHOOSE k \in initial : \A j \in initial : k <= j].path
    IN  IF found # "" THEN found
        ELSE IF Len(routes) > 0 /\ routes[1].path # "" THEN routes[1].path
        ELSE "/"

generateSimpleMainApp(routes, projectName) ==
    LET className == navToPascalCase(projectName)
        initialRoute == initialRouteOf(routes)
    IN
           "// lib/main.dart\n"
        \o "import 'package:flutter/material.dart';\n"
        \o "// Importar todas las pantallas\n"
        \o JoinLines(MapRoutes(routes, "import")) \o "\n"
        \o "\n"
        \o "void main() {\n"
        \o "  runApp(const " \o className \o "App());\n"
        \o "}\n"
        \o "\n"
        \o "class " \o className \o "App extends StatelessWidget {\n"
        \o "  const " \o className \o "App({super.key});\n"
        \o "\n"
        \o "  @override\n"
        \o "  Widget build(BuildContext context) {\n"
        \o "    return MaterialApp(\n"
        \o "      title: '" \o projectName \o "',\n"
        \o "      theme: ThemeData(\n"
        \o "        primarySwatch: Colors.blue,\n"
        \o "        visualDensity: VisualDensity.adaptivePlatformDensity,\n"
        \o "      ),\n"
        \o "      initialRoute: '" \o initialRoute \o "',\n"
        \o "      routes: {\n"
        \o "        // Definir todas las rutas directamente aquí\n"
        \o JoinLines(MapRoutes(routes, "route")) \o "\n"
        \o "      },\n"
        \o "      debugShowCheckedModeBanner: false,\n"
        \o "    );\n"
        \o "  }\n"
        \o "}\n"
        \o "\n"
        \o "// Navegación simple - TODO EN UNA CLASE\n"
        \o "class AppNavigation {\n"
        \o "  // Rutas disponibles\n"
        \o JoinLines(MapRoutes(routes, "const")) \o "\n"
        \o "\n"
        \o "  // Métodos simples para navegar\n"
        \o "  static void goTo(BuildContext context, String route) {\n"
        \o "    Navigator.pushNamed(context, route);\n"
        \o "  }\n"
        \o "\n"
        \o "  static void goBack(BuildContext context) {\n"
        \o "    if (Navigator.canPop(context)) {\n"
        \o "      Navigator.pop(context);\n"
        \o "    }\n"
        \o "  }\n"
        \o "\n"
        \o "  // Lista para el drawer\n"
        \o "  static List<NavigationItem> get allRoutes => [\n"
        \o JoinLines(MapRoutes(routes, "item")) \o "\n"
        \o "  ];\n"
        \o "}\n"
        \o "\n"
        \o "// Item simple de navegación\n"
        \o "class NavigationItem {\n"
        \o "  final String title;\n"
        \o "  final String route;\n"
        \o "  final IconData icon;\n"
        \o "  const NavigationItem(this.title, this.route, this.icon);\n"
        \o "}\n"
        \o "\n"
        \o "// Drawer automático\n"
        \o "class AppDrawer extends StatelessWidget {\n"
        \o "  const AppDrawer({super.key});\n"
        \o "\n"
        \o "  @override\n"
        \o "  Widget build(BuildContext context) {\n"
        \o "    return Drawer(\n"
        \o "      child: ListView(\n"
        \o "        padding: EdgeInsets.zero,\n"
        \o "        children: [\n"
        \o "          const DrawerHeader(\n"
        \o "            decoration: BoxDecoration(color: Colors.blue),\n"
        \o "            child: Text(\n"
        \o "              'Navegación',\n"
        \o "              style: TextStyle(color: Colors.white, fontSize: 24),\n"
        \o "            ),\n"
        \o "          ),\n"
        \o "          ...AppNavigation.allRoutes.map((item) => ListTile(\n"
        \o "            leading: Icon(item.icon),\n"
        \o "            title: Text(item.title),\n"
        \o "            onTap: () {\n"
        \o "              Navigator.pop(context);\n"
        \o "              AppNavigation.goTo(context, item.route);\n"
        \o "            },\n"
        \o "          )),\n"
        \o "        ],\n"
        \o "      ),\n"
        \o "    );\n"
        \o "  }\n"
        \o "}"

\* vistas.map((vista, index) => ({...})): index counts from 0.
routeOf(vista, index) ==
    [name |-> navToSnakeCase(vista.nombre),
     screenName |-> navToPascalCase(vista.nombre) \o "Screen",
     path |-> "/" \o navToSnakeCase(vista.nombre),
     isInitial |-> determineIfInitial(vista, index),
     description |-> vista.nombre,
     figuraCount |-> Len(vista.figuras)]

RECURSIVE routesFrom(_, _)
routesFrom(vistas, k) ==
    IF k > Len(vistas) THEN <<>>
    ELSE <<routeOf(vistas[k], k - 1)>> \o routesFrom(vistas, k + 1)

routesOf(vistas) == routesFrom(vistas, 1)

\* vistas[0]?.proyecto?.nombre || 'MyApp'
projectNameOf(vistas) ==
    IF Len(vistas) > 0 /\ vistas[1].proyecto.loaded /\ vistas[1].proyecto.nombre # ""
    THEN vistas[1].proyecto.nombre ELSE "MyApp"

createNavigationStructure(vistas) ==
    LET routes == routesOf(vistas)
    IN  [routes |-> routes,
         files |-> [mainApp |-> generateSimpleMainApp(routes, projectNameOf(vistas))]]

\* The result of generateNavigationForProject: null, or the structure.
NoNavigation == [kind |-> "null"]

NavigationOf(structure) ==
    [kind |-> "structure", routes |-> structure.routes, files |-> structure.files]

(***************************************************************************)
(* The inputs: what the LLM may answer and what the collaborators hold.    *)
(***************************************************************************)
\* A fenced dart block with a filename comment, as the system prompt asks.
FileBlock(name, body) ==
    [kind |-> "file", name |-> name, body |-> body,
     text |-> DartFence \o "\n// " \o name \o "\n" \o body \o "\n" \o Fence \o "\n"]

\* A fenced dart block without filename comment.
DartBlock(body) ==
    [kind |-> "dart", name |-> "", body |-> body,
     text |-> DartFence \o "\n" \o body \o "\n" \o Fence \o "\n"]

\* Text outside any dart block.
Loose(text) == [kind |-> "loose", name |-> "", body |-> text, text |-> text]

RECURSIVE Repeat(_, _)
Repeat(s, n) == IF n = 0 THEN "" ELSE s \o Repeat(s, n - 1)

\* A refusal longer than the excerpt the placeholder widget quotes.
LongProse == Repeat("No puedo generar el codigo de esta imagen. ", 14)

Pieces ==
    { FileBlock("a_screen.dart", "class AScreen extends StatelessWidget {}"),
      FileBlock("a_screen.dart", "class AScreen extends StatefulWidget {}"),
      FileBlock("b_widget.dart", "class BWidget extends StatelessWidget {}"),
      FileBlock("c_model.dart", "class C { final int id; }"),
      FileBlock("d_service.dart", "class DService {}"),
      FileBlock("page_model.dart", "class PageModel { final int n; }"),
      FileBlock("main.dart", "void main() { runApp(const MyApp()); }"),
      DartBlock("class HomePage extends StatelessWidget {}"),
      DartBlock("int x = 1;"),
      Loose("class HomeScreen extends StatelessWidget {}\n" \o Fence \o "\n"),
      Loose("class User { final int id; }\n" \o Fence \o "\n"),
      Loose(DartFence \o "\n// e_screen.dart\nclass EScreen"),
      Loose("Lo siento.\n"),
      Loose(LongProse) }

\* The responses of up to n pieces.
ResponsesUpTo(n) == UNION {[1..k -> Pieces] : k \in 0..n}

RECURSIVE Render(_)
Render(pieces) == IF Len(pieces) = 0 THEN "" ELSE pieces[1].text \o Render(Tail(pieces))

ViewNames == {"Login", "Home", "Settings", "User Profile 2"}

Vista(k, nombre, loaded) ==
    [id |-> "v" \o ToString(k), nombre |-> nombre,
     proyecto |-> [loaded |-> loaded, nombre |-> IF loaded THEN "mi tienda" ELSE ""]]

\* What vistaService.findAll may resolve to: the views of a project, with or
\* without their proyecto relation loaded.
VistaLists ==
    UNION {{[k \in 1..n |-> Vista(k, names[k], loaded)] :
                names \in [1..n -> ViewNames], loaded \in BOOLEAN} : n \in 0..MaxViews}

\* What figuraService.findAll(vista.id) may resolve to (null included).
NullFiguras == [isNull |-> TRUE, items |-> <<>>]
FiguraLists == {NullFiguras, [isNull |-> FALSE, items |-> <<"f1", "f2">>]}

\* The projects the atomic navigation step of a generation request may meet.
NavEnvs ==
    { [available |-> FALSE, rejects |-> FALSE, vistas |-> <<>>, caught |-> {}],
      [available |-> TRUE, rejects |-> TRUE, vistas |-> <<>>, caught |-> {}],
      [available |-> TRUE, rejects |-> FALSE,
       vistas |-> <<Vista(1, "Home", TRUE)>>, caught |-> {}],
      [available |-> TRUE, rejects |-> FALSE,
       vistas |-> <<Vista(1, "Settings", TRUE), Vista(2, "Home", TRUE)>>, caught |-> {2}],
      [available |-> TRUE, rejects |-> FALSE,
       vistas |-> <<Vista(1, "Settings", FALSE), Vista(2, "User Profile 2", FALSE),
                    Vista(3, "Login", FALSE)>>,
       caught |-> {}] }

(***************************************************************************)
(* prepareImageBase64.                                                     *)
(***************************************************************************)
Base64Chars == "ABCDEFGHIJKLMNOPQRSTUVWXYZabcdefghijklmnopqrstuvwxyz0123456789+/"

Base64Char(n) == CharAt(Base64Chars, n + 1)

\* Buffer.toString('base64'): three bytes to four characters, "=" padded.
RECURSIVE toBase64(_)
toBase64(bytes) ==
    IF Len(bytes) = 0 THEN ""
    ELSE IF Len(bytes) = 1
    THEN Base64Char(bytes[1] \div 4) \o Base64Char((bytes[1] % 4) * 16) \o "=="
    ELSE IF Len(bytes) = 2
    THEN Base64Char(bytes[1] \div 4)
         \o Base64Char((bytes[1] % 4) * 16 + bytes[2] \div 16)
         \o Base64Char((bytes[2] % 16) * 4) \o "="
    ELSE Base64Char(bytes[1] \div 4)
         \o Base64Char((bytes[1] % 4) * 16 + bytes[2] \div 16)
         \o Base64Char((bytes[2] % 16) * 4 + bytes[3] \div 64)
         \o Base64Char(bytes[3] % 64)
         \o toBase64(SubSeq(bytes, 4, Len(bytes)))

\* image.split(',')[1]: the text between the first and the second comma,
\* undefined when there is no comma.
SplitSecond(s) ==
    LET c == IndexOf(s, ",", 1)
    IN  IF c = 0 THEN [defined |-> FALSE, value |-> ""]
        ELSE LET rest == From(s, c + 1)
                 d == IndexOf(rest, ",", 1)
             IN  [defined |-> TRUE,
                  value |-> IF d = 0 THEN rest ELSE Substring0(rest, d - 1)]

UnsupportedImage == "Formato de imagen no soportado"

\* The result, or the error thrown.
prepareImageBase64(image) ==
    IF image.type = "buffer"
    THEN [thrown |-> "", defined |-> TRUE, value |-> toBase64(image.bytes)]
    ELSE IF image.type = "string"
    THEN IF StartsAt(image.value, "data:image", 1)
         THEN [thrown |-> ""] @@ SplitSecond(image.value)
         ELSE [thrown |-> "", defined |-> TRUE, value |-> image.value]
    ELSE [thrown |-> UnsupportedImage, defined |-> FALSE, value |-> ""]

Images ==
    { [type |-> "buffer", bytes |-> <<65, 66, 67>>, value |-> ""],
      [type |-> "buffer", bytes |-> <<255>>, value |-> ""],
      [type |-> "string", bytes |-> <<>>, value |-> "QUJD"],
      [type |-> "string", bytes |-> <<>>, value |-> "data:image/png;base64,QUJD"],
      [type |-> "string", bytes |-> <<>>, value |-> "data:image/png"],
      [type |-> "string", bytes |-> <<>>, value |-> "data:image/png;base64,QUJD,RUZH"],
      [type |-> "string", bytes |-> <<>>, value |-> "data:text/plain;base64,QUJD"],
      [type |-> "number", bytes |-> <<>>, value |-> ""] }

ProjectIds == {"", "p1"}

(***************************************************************************)
(* The JSON array of UI elements: content.match and JSON.parse.            *)
(***************************************************************************)
\* Where the pattern \[\s*\{ matches at position i: the position of its "{",
\* 0 when it does not match.
ArrayOpenAt(s, i) ==
    IF CharAt(s, i) = "[" /\ CharAt(s, SkipSpace(s, i + 1)) = "{"
    THEN SkipSpace(s, i + 1) ELSE 0

\* Where the pattern \}\s*\] matches at position j: the position of its "]",
\* 0 when it does not match.
ArrayCloseAt(s, j) ==
    IF CharAt(s, j) = "}" /\ CharAt(s, SkipSpace(s, j + 1)) = "]"
    THEN SkipSpace(s, j + 1) ELSE 0

\* content.match(/\[\s*\{[\s\S]*\}\s*\]/): from the first "[ {" to the last
\* "} ]" after it ([\s\S]* is greedy), null when there is none.
matchJsonArray(s) ==
    LET opens == {i \in 1..Len(s) : ArrayOpenAt(s, i) > 0}
    IN  IF opens = {} THEN [found |-> FALSE, text |-> ""]
        ELSE LET first == CHOOSE i \in opens : \A j \in opens : i <= j
                 closes == {j \in (ArrayOpenAt(s, first) + 1)..Len(s) : ArrayCloseAt(s, j) > 0}
             IN  IF closes = {} THEN [found |-> FALSE, text |-> ""]
                 ELSE LET last == CHOOSE j \in closes : \A k \in closes : k <= j
                      IN  [found |-> TRUE, text |-> SubSeq(s, first, ArrayCloseAt(s, last))]

\* JSON whitespace.
IsJsonSpace(c) == c \in {" ", "\n", "\t", "\r"}

RECURSIVE SkipJsonSpace(_, _)
SkipJsonSpace(s, i) ==
    IF i <= Len(s) /\ IsJsonSpace(CharAt(s, i)) THEN SkipJsonSpace(s, i + 1) ELSE i

RECURSIVE SkipDigits(_, _)
SkipDigits(s, i) == IF i <= Len(s) /\ IsDigit(CharAt(s, i)) THEN SkipDigits(s, i + 1) ELSE i

\* The characters a backslash may be followed by in a JSON string (\u with
\* its four hexadecimal digits is outside the texts of the model).
JsonEscapes == {"\"", "\\", "/", "b", "f", "n", "r", "t"}

\* The end (exclusive) of the JSON string whose opening quote is just before
\* position i, 0 when the string is malformed or not closed.
RECURSIVE SkipString(_, _)
SkipString(s, i) ==
    LET c == CharAt(s, i)
    IN  IF i > Len(s) \/ c \in {"\n", "\t", "\r"} THEN 0
        ELSE IF c = "\"" THEN i + 1
        ELSE IF c = "\\"
        THEN IF CharAt(s, i + 1) \in JsonEscapes THEN SkipString(s, i + 2) ELSE 0
        ELSE SkipString(s, i + 1)

\* The end (exclusive) of the JSON number at position i, 0 when there is none:
\* -? (0 | [1-9][0-9]*) (\.[0-9]+)? ([eE][+-]?[0-9]+)?
SkipNumber(s, i) ==
    LET d == IF CharAt(s, i) = "-" THEN i + 1 ELSE i
        int == IF CharAt(s, d) = "0" THEN d + 1 ELSE SkipDigits(s, d)
        frac == IF CharAt(s, int) = "." THEN SkipDigits(s, int + 1) ELSE int
        sign == IF CharAt(s, frac + 1) \in {"+", "-"} THEN frac + 2 ELSE frac + 1
        exp == IF CharAt(s, frac) \in {"e", "E"} THEN SkipDigits(s, sign) ELSE frac
    IN  IF int = d THEN 0
        ELSE IF CharAt(s, int) = "." /\ frac = int + 1 THEN 0
        ELSE IF CharAt(s, frac) \in {"e", "E"} /\ exp = sign THEN 0
        ELSE exp

JsonLiterals == {"true", "false", "null"}

\* The end (exclusive) of the JSON value at position i, 0 when the text from
\* i on does not start with a value.
RECURSIVE SkipValue(_, _)
RECURSIVE SkipItems(_, _)
RECURSIVE SkipMembers(_, _)
SkipValue(s, i) ==
    LET c == CharAt(s, i)
    IN  IF c = "\"" THEN SkipString(s, i + 1)
        ELSE IF c = "[" 
        THEN LET j == SkipJsonSpace(s, i + 1)
             IN  IF CharAt(s, j) = "]" THEN j + 1 ELSE SkipItems(s, j)
        ELSE IF c = "{"
        THEN LET j == SkipJsonSpace(s, i + 1)
             IN  IF CharAt(s, j) = "}" THEN j + 1 ELSE SkipMembers(s, j)
        ELSE IF c = "-" \/ IsDigit(c) THEN SkipNumber(s, i)
        ELSE LET lits == {l \in JsonLiterals : StartsAt(s, l, i)}
             IN  IF lits = {} THEN 0 ELSE i + Len(CHOOSE l \in lits : TRUE)

\* The end (exclusive) of the array whose next item starts at position i.
SkipItems(s, i) ==
    LET After(k) ==
            IF CharAt(s, k) = "," THEN SkipItems(s, SkipJsonSpace(s, k + 1))
            ELSE IF CharAt(s, k) = "]" THEN k + 1
            ELSE 0
        End(e) == IF e = 0 THEN 0 ELSE After(SkipJsonSpace(s, e))
    IN  End(SkipValue(s, i))

\* The end (exclusive) of the object whose next member starts at position i.
SkipMembers(s, i) ==
    LET After(k) ==
            IF CharAt(s, k) = "," THEN SkipMembers(s, SkipJsonSpace(s, k + 1))
            ELSE IF CharAt(s, k) = "}" THEN k + 1
            ELSE 0
        End(e) == IF e = 0 THEN 0 ELSE After(SkipJsonSpace(s, e))
        Colon(c) ==
            IF CharAt(s, c) # ":" THEN 0 ELSE End(SkipValue(s, SkipJsonSpace(s, c + 1)))
        Key(keyEnd) == IF keyEnd = 0 THEN 0 ELSE Colon(SkipJsonSpace(s, keyEnd))
    IN  IF CharAt(s, i) = "\"" THEN Key(SkipString(s, i + 1)) ELSE 0

\* The text of a JSON string without its escapes.
RECURSIVE Unescape(_)
Unescape(raw) ==
    IF raw = "" THEN ""
    ELSE IF CharAt(raw, 1) = "\\"
    THEN LET c == CharAt(raw, 2)
         IN  (IF c = "n" THEN "\n" ELSE IF c = "t" THEN "\t" ELSE IF c = "r" THEN "\r"
              ELSE IF c = "b" \/ c = "f" THEN "" ELSE c) \o Unescape(From(raw, 3))
    ELSE CharAt(raw, 1) \o Unescape(From(raw, 2))

\* An object property is set: a key that is there keeps its place and takes
\* the new value, a new key goes last.
RECURSIVE FieldSet(_, _, _)
FieldSet(fields, key, value) ==
    IF Len(fields) = 0 THEN <<[key |-> key, value |-> value]>>
    ELSE IF fields[1].key = key THEN <<[key |-> key, value |-> value]>> \o Tail(fields)
    ELSE <<fields[1]>> \o FieldSet(Tail(fields), key, value)

\* The properties of the object whose next member starts at position i, each
\* value as its JSON text; a repeated key keeps its last value.
RECURSIVE MembersFrom(_, _, _)
MembersFrom(s, i, acc) ==
    LET Next1(k, set) ==
            IF CharAt(s, k) = "," THEN MembersFrom(s, SkipJsonSpace(s, k + 1), set) ELSE set
        Value(key, v, e) == Next1(SkipJsonSpace(s, e), FieldSet(acc, key, SubSeq(s, v, e - 1)))
        Start(key, v) == Value(key, v, SkipValue(s, v))
        Key(keyEnd) ==
            Start(Unescape(SubSeq(s, i + 1, keyEnd - 2)),
                  SkipJsonSpace(s, SkipJsonSpace(s, keyEnd) + 1))
    IN  IF CharAt(s, i) # "\"" THEN acc ELSE Key(SkipString(s, i + 1))

JsonKind(c) ==
    IF c = "{" THEN "object" ELSE IF c = "[" THEN "array" ELSE IF c = "\"" THEN "string"
    ELSE IF c = "-" \/ IsDigit(c) THEN "number" ELSE "literal"

\* The value between positions i and e - 1 of a well-formed text: its kind,
\* its JSON text, and its properties when it is an object.
ValueAt(s, i, e) ==
    [kind |-> JsonKind(CharAt(s, i)),
     text |-> SubSeq(s, i, e - 1),
     fields |-> IF CharAt(s, i) = "{"
                THEN MembersFrom(s, SkipJsonSpace(s, i + 1), <<>>) ELSE <<>>]

\* The items of the well-formed array whose next item starts at position i.
RECURSIVE ItemsFrom(_, _)
ItemsFrom(s, i) ==
    LET After(k) ==
            IF CharAt(s, k) = "," THEN ItemsFrom(s, SkipJsonSpace(s, k + 1)) ELSE <<>>
        Item(e) == <<ValueAt(s, i, e)>> \o After(SkipJsonSpace(s, e))
    IN  IF i > Len(s) \/ CharAt(s, i) = "]" THEN <<>> ELSE Item(SkipValue(s, i))

\* JSON.parse(text): whether it returns (ok) or throws a SyntaxError, whether
\* the value is an array, and the items of the array.
JsonParse(text) ==
    LET Parsed(i, ok) ==
            [ok |-> ok, isArray |-> ok /\ CharAt(text, i) = "[",
             items |-> IF ok /\ CharAt(text, i) = "["
                       THEN ItemsFrom(text, SkipJsonSpace(text, i + 1)) ELSE <<>>]
        End(i, e) == Parsed(i, e # 0 /\ SkipJsonSpace(text, e) = Len(text) + 1)
        Start(i) == End(i, SkipValue(text, i))
    IN  Start(SkipJsonSpace(text, 1))

BadFormat == "No se pudo procesar la respuesta de la IA. Formato incorrecto."

NoValidElements == "No se generaron elementos de UI válidos"

\* The parse errors swallowed: uiElements keeps its initial [].
parseUIElementsLenient(path, content) ==
    LET Elements(found, parsed) ==
            IF ~parsed.ok \/ (~found /\ ~parsed.isArray)
            THEN [thrown |-> "", elements |-> <<>>]
            ELSE [thrown |-> "", elements |-> parsed.items]
        Matched(m) == Elements(m.found, JsonParse(IF m.found THEN m.text ELSE content))
    IN  Matched(matchJsonArray(content))

\* Step 4 of both extraction methods: the matched span is parsed when there
\* is one, the whole content otherwise (which must then be an array); the
\* prompt method also rejects an empty array.
parseUIElements(path, content) ==
    LET Elements(found, parsed) ==
            IF ~parsed.ok \/ (~found /\ ~parsed.isArray)
            THEN [thrown |-> BadFormat, elements |-> <<>>]
            ELSE IF path = "prompt" /\ (~parsed.isArray \/ Len(parsed.items) = 0)
            THEN [thrown |-> NoValidElements, elements |-> <<>>]
            ELSE [thrown |-> "", elements |-> parsed.items]
        Matched(m) == Elements(m.found, JsonParse(IF m.found THEN m.text ELSE content))
    IN  Matched(matchJsonArray(content))

\* The own enumerable properties the spread ...element copies: those of an
\* object, the indexed items of an array, the indexed characters of a string,
\* none for a number, a boolean or null.
RECURSIVE IndexedFrom(_, _)
IndexedFrom(texts, k) ==
    IF k > Len(texts) THEN <<>>
    ELSE <<[key |-> ToString(k - 1), value |-> texts[k]]>> \o IndexedFrom(texts, k + 1)

spreadOf(element) ==
    LET Texts(items) == [k \in 1..Len(items) |-> items[k].text]
        Quoted(chars) == [k \in 1..Len(chars) |-> "\"" \o CharAt(chars, k) \o "\""]
    IN  IF element.kind = "object" THEN element.fields
        ELSE IF element.kind = "array"
        THEN IndexedFrom(Texts(ItemsFrom(element.text, SkipJsonSpace(element.text, 2))), 1)
        ELSE IF element.kind = "string"
        THEN IndexedFrom(Quoted(Unescape(SubSeq(element.text, 2, Len(element.text) - 1))), 1)
        ELSE <<>>

\* A record that spreads the element over the vistaId: { vistaId, ...element }.
figuraDataElementLast(element, vistaId) ==
    IF \E k \in 1..Len(spreadOf(element)) : spreadOf(element)[k].key = "vistaId"
    THEN spreadOf(element)
    ELSE FieldSet(spreadOf(element), "vistaId", "\"" \o vistaId \o "\"")

\* const figuraData = { ...element, vistaId }.
figuraDataOf(element, vistaId) ==
    FieldSet(spreadOf(element), "vistaId", "\"" \o vistaId \o "\"")

(***************************************************************************)
(* The state of one generation request (generateFlutterCodeFromScreenshot) *)
(* and of one run of generateNavigationForProject.                         *)
(***************************************************************************)
VARIABLES
    pc,              \* position of the generation request
    projectId,       \* data.projectId ("" when absent)
    dataImage,       \* data.image until the LLM call is made
    imageBase64,     \* the prepared image while the LLM call needs it
    response,        \* the pieces the LLM answered with (history of content)
    content,         \* response.choices[0].message.content
    codeBlocks,      \* the Map filename -> content of processCode
    bundle,          \* screens, widgets, models, services, mainApp, processedFiles
    usedFallback,    \* whether extractWithExtendedPatterns was entered
    navigationFiles, \* processedResult.navigationFiles
    thrown,          \* message of the error the request failed with
    navPc,           \* position of generateNavigationForProject
    services,        \* what the two moduleRef.get calls gave
    found,           \* how vistaService.findAll settled
    calls,           \* the service operations invoked so far, in order
    vistas,          \* what vistaService.findAll resolved to
    settled,         \* per view: "pending", "fulfilled" or "caught"
    figuras,         \* per view: the figuras of its detail record
    navResult,       \* what generateNavigationForProject returned
    uiPc,            \* position of the element-extraction request
    uiPath,          \* "image" or "prompt": the method the request entered
    uiImage,         \* the prepared image while the LLM call needs it
    uiContent,       \* response.choices[0].message.content of that request
    uiElements,      \* uiElements: the parsed array
    uiIndex,         \* the element the for loop is at
    createCalls,     \* the figuraService.create calls made, with their outcome
    createdFigures,  \* createdFigures
    uiThrown,        \* message of the error the extraction failed with
    apiCalls,        \* calls of openai.chat.completions.create made so far
    ctlPc,           \* position of the controller's handler
    ctlRequest,      \* the endpoint, upload and id the handler was called with
    ctlResult,       \* what the handler returned
    runs             \* the locals of the processCode calls in progress together

genVars ==
    <<pc, projectId, dataImage, imageBase64, response, content, codeBlocks, bundle,
      usedFallback, navigationFiles, thrown>>

navVars == <<navPc, services, found, calls, vistas, settled, figuras, navResult>>

uiVars ==
    <<uiPc, uiPath, uiImage, uiContent, uiElements, uiIndex, createCalls,
      createdFigures, uiThrown>>

ctlVars == <<ctlPc, ctlRequest, ctlResult>>

vars == <<genVars, navVars, uiVars, apiCalls, ctlVars, runs>>

NoContent == [isNull |-> TRUE, text |-> ""]

\* No request has reached the controller.
NoRequest == [endpoint |-> "", upload |-> "", id |-> ""]

\* The handler has returned nothing yet.
NoResult == [success |-> FALSE, message |-> "", error |-> "", returned |-> FALSE]

\* No image held.
NoImage == [type |-> "none", bytes |-> <<>>, value |-> ""]

Init ==
    /\ pc = "idle"
    /\ projectId = ""
    /\ dataImage = NoImage
    /\ imageBase64 = ""
    /\ response = <<>>
    /\ content = NoContent
    /\ codeBlocks = <<>>
    /\ bundle = EmptyBundle
    /\ usedFallback = FALSE
    /\ navigationFiles = NoNavigation
    /\ thrown = ""
    /\ navPc = "idle"
    /\ services = "unresolved"
    /\ found = "pending"
    /\ calls = <<>>
    /\ vistas = <<>>
    /\ settled = <<>>
    /\ figuras = <<>>
    /\ navResult = NoNavigation
    /\ uiPc = "idle"
    /\ uiPath = ""
    /\ uiImage = ""
    /\ uiContent = NoContent
    /\ uiElements = <<>>
    /\ uiIndex = 0
    /\ createCalls = <<>>
    /\ createdFigures = <<>>
    /\ uiThrown = ""
    /\ apiCalls = 0
    /\ ctlPc = "idle"
    /\ ctlRequest = NoRequest
    /\ ctlResult = NoResult
    /\ runs = <<>>

\* The outer catch: the error is logged and rethrown under a prefix.
ErrorPrefix == "Error al generar código Flutter: "

Fail(message) ==
    /\ pc' = "failed"
    /\ thrown' = ErrorPrefix \o message

\* Step 1: prepareImageBase64(data.image), then imageBase64.length.
PrepareImageFrom(images, ids) ==
    /\ pc = "idle"
    /\ \E image \in images, id \in ids :
          LET prepared == prepareImageBase64(image)
          IN  /\ projectId' = id
              /\ dataImage' = image
              /\ IF prepared.thrown # ""
                 THEN Fail(prepared.thrown) /\ UNCHANGED imageBase64
                 ELSE IF ~prepared.defined
                 THEN /\ Fail("Cannot read properties of undefined (reading 'length')")
                      /\ UNCHANGED imageBase64
                 ELSE /\ pc' = "prepared"
                      /\ imageBase64' = prepared.value
                      /\ UNCHANGED thrown
    /\ UNCHANGED <<response, content, codeBlocks, bundle, usedFallback, navigationFiles>>
    /\ UNCHANGED <<navVars, uiVars, apiCalls, ctlVars, runs>>

\* Step 1 on any image and project id a caller of the service may pass.
PrepareImage == PrepareImageFrom(Images, ProjectIds)

\* A content check that also rejects a response without a dart block.
contentWithoutCode(c) == c.isNull \/ ~Includes(c.text, DartFence)

\* if (!content): null and the empty string are both falsy.
contentMissing(c) == c.isNull \/ c.text = ""

MissingContent == "La respuesta de OpenAI no contiene contenido."

ApiErrors == {"429 Rate limit reached"}

\* The call repeated once after a rejection.
CallOpenAIRetrying ==
    /\ pc = "prepared"
    /\ apiCalls' = apiCalls + 1
    /\ \/ /\ \E message \in ApiErrors :
                IF apiCalls = 0 THEN UNCHANGED <<pc, thrown>> ELSE Fail(message)
          /\ UNCHANGED <<response, content, dataImage, imageBase64>>
       \/ /\ \E c \in {<<<<>>, NoContent>>}
                      \cup {<<r, [isNull |-> FALSE, text |-> Render(r)]>> :
                               r \in ResponsesUpTo(MaxPieces)} :
                /\ response' = c[1]
                /\ content' = c[2]
                /\ IF contentMissing(c[2])
                   THEN Fail(MissingContent)
                   ELSE pc' = "responded" /\ UNCHANGED thrown
          /\ imageBase64' = ""
          /\ dataImage' = NoImage
    /\ UNCHANGED <<projectId, codeBlocks, bundle, usedFallback, navigationFiles>>
    /\ UNCHANGED <<navVars, uiVars, ctlVars, runs>>

\* Steps 2 and 3: the call rejects, or resolves with null content, or with
\* the text of a response; imageBase64 is not read after the call.
CallOpenAI ==
    /\ pc = "prepared"
    /\ apiCalls' = apiCalls + 1
    /\ dataImage' = NoImage
    /\ imageBase64' = ""
    /\ \/ /\ \E message \in ApiErrors : Fail(message)
          /\ UNCHANGED <<response, content>>
       \/ \E c \in {<<<<>>, NoContent>>}
                   \cup {<<r, [isNull |-> FALSE, text |-> Render(r)]>> :
                            r \in ResponsesUpTo(MaxPieces)} :
             /\ response' = c[1]
             /\ content' = c[2]
             /\ IF contentMissing(c[2])
                THEN Fail(MissingContent)
                ELSE pc' = "responded" /\ UNCHANGED thrown
    /\ UNCHANGED <<projectId, codeBlocks, bundle, usedFallback, navigationFiles>>
    /\ UNCHANGED <<navVars, uiVars, ctlVars, runs>>

\* processCode step 1.
ExtractFileBlocks ==
    /\ pc = "responded"
    /\ codeBlocks' = extractFileBlocks(content.text)
    /\ pc' = "extracted"
    /\ UNCHANGED <<projectId, dataImage, imageBase64, response, content, bundle, usedFallback,
                   navigationFiles, thrown>>
    /\ UNCHANGED <<navVars, uiVars, apiCalls, ctlVars, runs>>

\* processCode step 2.
ProcessCodeBlocks ==
    /\ pc = "extracted"
    /\ bundle' = processCodeBlocks(codeBlocks, bundle)
    /\ pc' = "classified"
    /\ UNCHANGED <<projectId, dataImage, imageBase64, response, content, codeBlocks, usedFallback,
                   navigationFiles, thrown>>
    /\ UNCHANGED <<navVars, uiVars, apiCalls, ctlVars, runs>>

\* processCode step 3 into extractWithExtendedPatterns steps 1 to 4.
TakeFallback ==
    /\ pc = "classified"
    /\ takesFallback(bundle)
    /\ usedFallback' = TRUE
    /\ bundle' = fallbackScan(content.text)
    /\ pc' = "fallbackScanned"
    /\ UNCHANGED <<projectId, dataImage, imageBase64, response, content, codeBlocks,
                   navigationFiles, thrown>>
    /\ UNCHANGED <<navVars, uiVars, apiCalls, ctlVars, runs>>

\* extractWithExtendedPatterns steps 5 and 6, and its return through
\* processCode.
FinishFallback ==
    /\ pc = "fallbackScanned"
    /\ bundle' = fallbackFinish(bundle, content.text)
    /\ pc' = "processed"
    /\ UNCHANGED <<projectId, dataImage, imageBase64, response, content, codeBlocks, usedFallback,
                   navigationFiles, thrown>>
    /\ UNCHANGED <<navVars, uiVars, apiCalls, ctlVars, runs>>

\* processCode step 4 and its return.
SupplyMainApp ==
    /\ pc = "classified"
    /\ ~takesFallback(bundle)
    /\ bundle' = withMainApp(bundle)
    /\ pc' = "processed"
    /\ UNCHANGED <<projectId, dataImage, imageBase64, response, content, codeBlocks, usedFallback,
                   navigationFiles, thrown>>
    /\ UNCHANGED <<navVars, uiVars, apiCalls, ctlVars, runs>>

\* The detail records Promise.all resolves to: each view with its figuras.
vistaDetailsOf(vs, figs) ==
    [k \in 1..Len(vs) |->
        [id |-> vs[k].id, nombre |-> vs[k].nombre, figuras |-> figs[k],
         proyecto |-> vs[k].proyecto]]

\* generateNavigationForProject on one project, start to end: every failure
\* and a project of fewer than 2 views give null.
generateNavigationForProject(env) ==
    IF ~env.available \/ env.rejects \/ Len(env.vistas) < 2 THEN NoNavigation
    ELSE NavigationOf(createNavigationStructure(
             vistaDetailsOf(env.vistas,
                 [k \in 1..Len(env.vistas) |->
                     IF k \in env.caught THEN <<>> ELSE <<"f1", "f2">>])))

\* if (data.projectId) { ... }: a null navigationCode leaves the bundle as
\* it is.
Navigate ==
    /\ pc = "processed"
    /\ projectId # ""
    /\ \E env \in NavEnvs : navigationFiles' = generateNavigationForProject(env)
    /\ pc' = "returned"
    /\ UNCHANGED <<projectId, dataImage, imageBase64, response, content, codeBlocks, bundle,
                   usedFallback, thrown>>
    /\ UNCHANGED <<navVars, uiVars, apiCalls, ctlVars, runs>>

\* No projectId: navigation is skipped.
SkipNavigation ==
    /\ pc = "processed"
    /\ projectId = ""
    /\ pc' = "returned"
    /\ UNCHANGED <<projectId, dataImage, imageBase64, response, content, codeBlocks, bundle,
                   usedFallback, navigationFiles, thrown>>
    /\ UNCHANGED <<navVars, uiVars, apiCalls, ctlVars, runs>>

Next ==
    \/ PrepareImage
    \/ CallOpenAI
    \/ ExtractFileBlocks
    \/ ProcessCodeBlocks
    \/ TakeFallback
    \/ FinishFallback
    \/ SupplyMainApp
    \/ Navigate
    \/ SkipNavigation

Spec == Init /\ [][Next]_vars

(***************************************************************************)
(* generateNavigationForProject, step by step.                             *)
(***************************************************************************)
NavReturn(result) ==
    /\ navResult' = result
    /\ navPc' = "done"

\* The id generateNavigationForProject is called with (data.projectId).
NavProjectId == "p1"

\* What the two moduleRef.get calls may give: both services, or undefined
\* for one of them.
ServiceOutcomes == {"available", "noVistaService", "noFiguraService"}

VistaFindAll(id) == [service |-> "vista", op |-> "findAll", arg |-> id]

FiguraFindAll(vista) == [service |-> "figura", op |-> "findAll", arg |-> vista.id]

\* vistas.map(async (vista) => ...): each callback runs up to its await, so
\* the figuraService.findAll calls are made one after the other in view order.
RECURSIVE FiguraCalls(_, _)
FiguraCalls(vs, k) ==
    IF k > Len(vs) THEN <<>> ELSE <<FiguraFindAll(vs[k])>> \o FiguraCalls(vs, k + 1)

\* The threshold taken one too low: a single view is enough.
tooFewVistasNone(isNull, vs) == isNull \/ Len(vs) < 1

\* if (!vistas || vistas.length < 2) return null.
tooFewVistas(isNull, vs) == isNull \/ Len(vs) < 2

\* moduleRef.get of the two services; a missing one throws into the catch,
\* which logs and returns null.
NavResolve ==
    /\ navPc = "idle"
    /\ \E outcome \in ServiceOutcomes :
          /\ services' = outcome
          /\ IF outcome = "available" THEN navPc' = "resolved" /\ UNCHANGED navResult
             ELSE NavReturn(NoNavigation)
    /\ UNCHANGED <<found, calls, vistas, settled, figuras>>
    /\ UNCHANGED <<genVars, uiVars, apiCalls, ctlVars, runs>>

\* await vistaService.findAll(projectId) rejects (the catch returns null),
\* or resolves with null.
NavFindAllFails ==
    /\ navPc = "resolved"
    /\ calls' = Append(calls, VistaFindAll(NavProjectId))
    /\ \E outcome \in {"rejected", "null"} :
          /\ found' = outcome
          /\ outcome = "null" => tooFewVistas(TRUE, <<>>)
    /\ NavReturn(NoNavigation)
    /\ UNCHANGED <<services, vistas, settled, figuras>>
    /\ UNCHANGED <<genVars, uiVars, apiCalls, ctlVars, runs>>

\* await vistaService.findAll(projectId) resolves with a list; with 2 views
\* or more every figuraService.findAll is started.
NavFindAllFrom(lists) ==
    /\ navPc = "resolved"
    /\ found' = "list"
    /\ \E vs \in lists :
          /\ vistas' = vs
          /\ IF tooFewVistas(FALSE, vs)
             THEN /\ NavReturn(NoNavigation)
                  /\ calls' = Append(calls, VistaFindAll(NavProjectId))
                  /\ UNCHANGED <<settled, figuras>>
             ELSE /\ navPc' = "fetching"
                  /\ calls' = Append(calls, VistaFindAll(NavProjectId)) \o FiguraCalls(vs, 1)
                  /\ settled' = [k \in 1..Len(vs) |-> "pending"]
                  /\ figuras' = [k \in 1..Len(vs) |-> <<>>]
                  /\ UNCHANGED navResult
    /\ UNCHANGED services
    /\ UNCHANGED <<genVars, uiVars, apiCalls, ctlVars, runs>>

\* vistaService.findAll resolves to any list of views of the model.
NavFindAll == NavFindAllFrom(VistaLists)

\* The figuras written onto the view record itself instead of a new detail
\* record.
FetchFulfilledInPlace(k) ==
    /\ navPc = "fetching"
    /\ settled[k] = "pending"
    /\ \E f \in FiguraLists :
          /\ figuras' = [figuras EXCEPT ![k] = IF f.isNull THEN <<>> ELSE f.items]
          /\ vistas' = [vistas EXCEPT ![k] = [id |-> @.id, nombre |-> @.nombre,
                                              proyecto |-> @.proyecto,
                                              figuras |-> figuras'[k]]]
    /\ settled' = [settled EXCEPT ![k] = "fulfilled"]
    /\ UNCHANGED <<navPc, services, found, calls, navResult>>
    /\ UNCHANGED <<genVars, uiVars, apiCalls, ctlVars, runs>>

\* figuraService.findAll(vista.id) resolves: figuras || [].
FetchFulfilled(k) ==
    /\ navPc = "fetching"
    /\ settled[k] = "pending"
    /\ \E f \in FiguraLists :
          figuras' = [figuras EXCEPT ![k] = IF f.isNull THEN <<>> ELSE f.items]
    /\ settled' = [settled EXCEPT ![k] = "fulfilled"]
    /\ UNCHANGED <<navPc, services, found, calls, vistas, navResult>>
    /\ UNCHANGED <<genVars, uiVars, apiCalls, ctlVars, runs>>

\* The rejection left uncaught: Promise.all rejects and the outer catch
\* returns null.
FetchCaughtAborts(k) ==
    /\ navPc = "fetching"
    /\ settled[k] = "pending"
    /\ settled' = [settled EXCEPT ![k] = "caught"]
    /\ NavReturn(NoNavigation)
    /\ UNCHANGED <<services, found, calls, vistas, figuras>>
    /\ UNCHANGED <<genVars, uiVars, apiCalls, ctlVars, runs>>

\* figuraService.findAll(vista.id) rejects: the view keeps no figuras.
FetchCaught(k) ==
    /\ navPc = "fetching"
    /\ settled[k] = "pending"
    /\ figuras' = [figuras EXCEPT ![k] = <<>>]
    /\ settled' = [settled EXCEPT ![k] = "caught"]
    /\ UNCHANGED <<navPc, services, found, calls, vistas, navResult>>
    /\ UNCHANGED <<genVars, uiVars, apiCalls, ctlVars, runs>>

\* Promise.all resolved: createNavigationStructure(vistaDetails).
NavBuild ==
    /\ navPc = "fetching"
    /\ \A k \in 1..Len(vistas) : settled[k] # "pending"
    /\ NavReturn(NavigationOf(createNavigationStructure(vistaDetailsOf(vistas, figuras))))
    /\ UNCHANGED <<services, found, calls, vistas, settled, figuras>>
    /\ UNCHANGED <<genVars, uiVars, apiCalls, ctlVars, runs>>

NavNext ==
    \/ NavResolve
    \/ NavFindAllFails
    \/ NavFindAll
    \/ \E k \in 1..MaxViews : k <= Len(vistas) /\ FetchFulfilled(k)
    \/ \E k \in 1..MaxViews : k <= Len(vistas) /\ FetchCaught(k)
    \/ NavBuild

SpecNav == Init /\ [][NavNext]_vars

(***************************************************************************)
(* One element-extraction request: extractUIElementsFromImage or           *)
(* extractUIElementsFromPrompt, then createFiguresFromUIElements.          *)
(***************************************************************************)
\* The elements an LLM answer may list: two objects, one of them carrying a
\* vistaId of its own, and a bare number.
ElementTexts ==
    { "{\"tipo\":\"rect\"}",
      "{\"tipo\": \"text\", \"vistaId\": \"x9\"}",
      "7" }

RECURSIVE JoinItems(_)
JoinItems(texts) ==
    IF Len(texts) = 0 THEN ""
    ELSE IF Len(texts) = 1 THEN texts[1]
    ELSE texts[1] \o ", " \o JoinItems(Tail(texts))

ArrayText(texts) == "[" \o JoinItems(texts) \o "]"

\* The arrays of up to n elements.
ArraysUpTo(n) == {ArrayText(texts) : texts \in UNION {[1..k -> ElementTexts] : k \in 0..n}}

JsonFence == "~~~json"

\* The ways an answer may present its array: alone, inside prose, inside a
\* json fence, as a property of an object, cut short, or twice.
Presentations(a) ==
    { a,
      "Aqui estan los elementos: " \o a \o "\nEspero que ayude.",
      JsonFence \o "\n" \o a \o "\n" \o Fence,
      "{\"elements\": " \o a \o "}",
      Substring0(a, Len(a) - 1),
      a \o "\n" \o a }

\* Answers that hold no array.
OtherAnswers ==
    { "No puedo analizar la imagen.", "{\"tipo\":\"rect\"}", "\"hola\"", "42", "null" }

UIContents == UNION {Presentations(a) : a \in ArraysUpTo(MaxElements)} \cup OtherAnswers

\* The vistaId the request is made for.
UIVistaId == "v1"

ImageErrorPrefix == "Error al procesar la imagen: "

PromptErrorPrefix == "Error al procesar el prompt: "

FigurasErrorPrefix == "Error al crear figuras: "

NoFiguraService == "No se pudo obtener el servicio de figuras"

NoContentMessage == "La respuesta de OpenAI no contiene contenido"

\* The outer catch of the extraction method: the error is logged and
\* rethrown under the prefix of the method.
UIFail(path, message) ==
    /\ uiPc' = "failed"
    /\ uiThrown' = (IF path = "image" THEN ImageErrorPrefix ELSE PromptErrorPrefix)
                   \o message

\* extractUIElementsFromImage, step 1: prepareImageBase64(imageBuffer).
UIPrepareImageFrom(images) ==
    /\ uiPc = "idle"
    /\ uiPath' = "image"
    /\ LET Prepared(prepared) ==
               IF prepared.thrown # ""
               THEN UIFail("image", prepared.thrown) /\ UNCHANGED uiImage
               ELSE /\ uiImage' = (IF prepared.defined THEN prepared.value ELSE "undefined")
                    /\ uiPc' = "prepared"
                    /\ UNCHANGED uiThrown
       IN  \E image \in images : Prepared(prepareImageBase64(image))
    /\ UNCHANGED <<uiContent, uiElements, uiIndex, createCalls, createdFigures, apiCalls>>
    /\ UNCHANGED <<genVars, navVars, ctlVars, runs>>

\* Step 1 on any image a caller of the service may pass.
UIPrepareImage == UIPrepareImageFrom(Images)

\* extractUIElementsFromPrompt up to its request: the colour scheme and the
\* instructions are looked up, nothing can throw.
UIPreparePrompt ==
    /\ uiPc = "idle"
    /\ uiPath' = "prompt"
    /\ uiPc' = "prepared"
    /\ UNCHANGED <<uiImage, uiContent, uiElements, uiIndex, createCalls, createdFigures,
                   uiThrown, apiCalls>>
    /\ UNCHANGED <<genVars, navVars, ctlVars, runs>>

\* await this.openai.chat.completions.create(...), made once, and the test
\* of the content: the call rejects, or answers with no content, an empty
\* content or a text.
UICallOpenAI ==
    /\ uiPc = "prepared"
    /\ apiCalls' = apiCalls + 1
    /\ uiImage' = ""
    /\ \/ \E error \in ApiErrors : UIFail(uiPath, error) /\ UNCHANGED uiContent
       \/ \E c \in {NoContent, [isNull |-> FALSE, text |-> ""]}
                   \cup {[isNull |-> FALSE, text |-> t] : t \in UIContents} :
             /\ uiContent' = c
             /\ IF contentMissing(c) THEN UIFail(uiPath, NoContentMessage)
                ELSE uiPc' = "responded" /\ UNCHANGED uiThrown
    /\ UNCHANGED <<uiPath, uiElements, uiIndex, createCalls, createdFigures>>
    /\ UNCHANGED <<genVars, navVars, ctlVars, runs>>

\* Step 4: content.match, JSON.parse and, for a prompt, the test for an
\* empty array.
UIParseElements ==
    /\ uiPc = "responded"
    /\ LET Parsed(parsed) ==
               IF parsed.thrown # ""
               THEN UIFail(uiPath, parsed.thrown) /\ UNCHANGED uiElements
               ELSE uiElements' = parsed.elements /\ uiPc' = "parsed" /\ UNCHANGED uiThrown
       IN  Parsed(parseUIElements(uiPath, uiContent.text))
    /\ UNCHANGED <<uiPath, uiImage, uiContent, uiIndex, createCalls, createdFigures, apiCalls>>
    /\ UNCHANGED <<genVars, navVars, ctlVars, runs>>

\* The for loop has an element left, or createFiguresFromUIElements returns
\* createdFigures and the extraction method returns them.
UILoop(index) ==
    uiPc' = IF index <= Len(uiElements) THEN "creating" ELSE "returned"

\* createFiguresFromUIElements: moduleRef.get(FiguraService); without the
\* service the error is rethrown by both catches.
UIGetFiguraService ==
    /\ uiPc = "parsed"
    /\ \E available \in BOOLEAN :
          IF available
          THEN uiIndex' = 1 /\ UILoop(1) /\ UNCHANGED uiThrown
          ELSE UIFail(uiPath, FigurasErrorPrefix \o NoFiguraService) /\ UNCHANGED uiIndex
    /\ UNCHANGED <<uiPath, uiImage, uiContent, uiElements, createCalls, createdFigures,
                   apiCalls>>
    /\ UNCHANGED <<genVars, navVars, ctlVars, runs>>

\* The record figuraService.create resolves to for its n-th call.
CreatedFigure(n, figuraData) == [id |-> "fig" \o ToString(n), data |-> figuraData]

\* await figuraService.create(figuraData) resolves: the record is pushed.
UICreateFulfilled ==
    /\ uiPc = "creating"
    /\ LET Create(figuraData) ==
               /\ createCalls' = Append(createCalls,
                                        [data |-> figuraData, fulfilled |-> TRUE])
               /\ createdFigures' =
                      Append(createdFigures, CreatedFigure(Len(createCalls) + 1, figuraData))
       IN  Create(figuraDataOf(uiElements[uiIndex], UIVistaId))
    /\ uiIndex' = uiIndex + 1
    /\ UILoop(uiIndex + 1)
    /\ UNCHANGED <<uiPath, uiImage, uiContent, uiElements, uiThrown, apiCalls>>
    /\ UNCHANGED <<genVars, navVars, ctlVars, runs>>

\* The rejection left uncaught by the loop: the batch stops and the request
\* fails.
UICreateRejectedStops ==
    /\ uiPc = "creating"
    /\ createCalls' = Append(createCalls,
                             [data |-> figuraDataOf(uiElements[uiIndex], UIVistaId),
                              fulfilled |-> FALSE])
    /\ UIFail(uiPath, FigurasErrorPrefix \o "create")
    /\ UNCHANGED <<uiPath, uiImage, uiContent, uiElements, uiIndex, createdFigures,
                   apiCalls>>
    /\ UNCHANGED <<genVars, navVars, ctlVars, runs>>

\* await figuraService.create(figuraData) rejects: the inner catch logs and
\* the loop goes on.
UICreateRejected ==
    /\ uiPc = "creating"
    /\ createCalls' = Append(createCalls,
                             [data |-> figuraDataOf(uiElements[uiIndex], UIVistaId),
                              fulfilled |-> FALSE])
    /\ uiIndex' = uiIndex + 1
    /\ UILoop(uiIndex + 1)
    /\ UNCHANGED <<uiPath, uiImage, uiContent, uiElements, createdFigures, uiThrown,
                   apiCalls>>
    /\ UNCHANGED <<genVars, navVars, ctlVars, runs>>

UINext ==
    \/ UIPrepareImage
    \/ UIPreparePrompt
    \/ UICallOpenAI
    \/ UIParseElements
    \/ UIGetFiguraService
    \/ UICreateFulfilled
    \/ UICreateRejected

SpecUI == Init /\ [][UINext]_vars

(***************************************************************************)
(* One request of either kind: a generation request or an element-         *)
(* extraction request, from its start to its result.                       *)
(***************************************************************************)
RequestNext ==
    \/ uiPc = "idle" /\ PrepareImage
    \/ CallOpenAI
    \/ ExtractFileBlocks
    \/ ProcessCodeBlocks
    \/ TakeFallback
    \/ FinishFallback
    \/ SupplyMainApp
    \/ Navigate
    \/ SkipNavigation
    \/ pc = "idle" /\ UIPrepareImage
    \/ pc = "idle" /\ UIPreparePrompt
    \/ UICallOpenAI
    \/ UIParseElements
    \/ UIGetFiguraService
    \/ UICreateFulfilled
    \/ UICreateRejected

SpecRequest == Init /\ [][RequestNext]_vars

(***************************************************************************)
(* The properties.                                                         *)
(***************************************************************************)
\* Whether processCode has returned its bundle.
Processed == pc \in {"processed", "returned"}

ArtifactCount(b) == Len(b.screens) + Len(b.widgets) + Len(b.models) + Len(b.services)

\* C1: the bundle processCode returns is never fully empty, and when the
\* extractor found no block at all the fallback extractor was entered and the
\* bundle holds at least one screen, widget, model or service.
C1_BundleNeverEmpty ==
    Processed =>
        /\ ArtifactCount(bundle) > 0 \/ bundle.mainApp.defined
        /\ Len(codeBlocks) = 0 => usedFallback /\ ArtifactCount(bundle) > 0

\* The extractor found nothing and the fallback found a class in loose text.
C1_Witness ==
    /\ pc = "processed"
    /\ Len(codeBlocks) = 0
    /\ usedFallback
    /\ Len(bundle.screens) > 0
    /\ Len(bundle.widgets) = 0

\* C2: on both paths the bundle processCode returns has a mainApp; a step
\* that returns from a bundle without one leaves the generated main.dart of
\* the returned screens in it.
C2_MainAppSupplied ==
    [][pc' = "processed" =>
          /\ bundle'.mainApp.defined
          /\ ~bundle.mainApp.defined => bundle'.mainApp = generateMainApp(bundle'.screens)]_vars

\* The primary path returned a screen and no main.dart was in the response.
C2_Witness ==
    /\ pc = "processed"
    /\ ~usedFallback
    /\ ~MapHas(codeBlocks, "main.dart")
    /\ Len(bundle.screens) > 0
    /\ bundle.mainApp = generateMainApp(bundle.screens)

\* The category a recognized filename suffix declares ("" for none).
SuffixCategory(name) ==
    IF EndsWith(name, "_screen.dart") THEN "screens"
    ELSE IF EndsWith(name, "_widget.dart") THEN "widgets"
    ELSE IF EndsWith(name, "_model.dart") THEN "models"
    ELSE IF EndsWith(name, "_service.dart") THEN "services"
    ELSE ""

\* The filename without its extension.
Stem(name) == Substring0(name, Len(name) - Len(".dart"))

IsProse(piece) ==
    piece.kind = "loose" /\ ~Includes(piece.text, Fence) /\ ~Includes(piece.text, "class")

FileIndexes(r) == {i \in 1..Len(r) : r[i].kind = "file"}

\* A response of fenced dart blocks with pairwise distinct filename comments,
\* each ending in a recognized suffix, and of prose.
SuffixNamed(r) ==
    /\ FileIndexes(r) # {}
    /\ \A i \in 1..Len(r) :
          \/ r[i].kind = "file" /\ SuffixCategory(r[i].name) # ""
          \/ IsProse(r[i])
    /\ \A i, j \in FileIndexes(r) : i # j => r[i].name # r[j].name

\* The artifacts of a category of a bundle that carry a name.
Named(b, category, name) ==
    LET artifacts == CASE category = "screens" -> b.screens
                       [] category = "widgets" -> b.widgets
                       [] category = "models" -> b.models
                       [] category = "services" -> b.services
    IN  {i \in 1..Len(artifacts) : artifacts[i].name = name}

\* Whether a filename contains the marker of a rule the classifier tries
\* before the rule of the filename's suffix.
EarlierMarker(name) ==
    LET category == SuffixCategory(name)
        screenMarker == Includes(name, "_screen") \/ Includes(name, "page")
    IN  CASE category = "screens" -> FALSE
          [] category = "widgets" -> screenMarker
          [] category = "models" -> screenMarker \/ Includes(name, "widget")
          [] category = "services" ->
                screenMarker \/ Includes(name, "widget") \/ Includes(name, "model")
          [] OTHER -> FALSE

\* C3 as stated: for a response of N suffix-named blocks, extraction plus
\* classification yields exactly N artifacts, each named by its filename
\* without the extension and placed in the category its suffix declares.
C3_SuffixDeclaresCategory ==
    pc = "classified" /\ SuffixNamed(response) =>
        /\ Len(codeBlocks) = Cardinality(FileIndexes(response))
        /\ ArtifactCount(bundle) = Cardinality(FileIndexes(response))
        /\ \A i \in FileIndexes(response) :
              Cardinality(Named(bundle, SuffixCategory(response[i].name),
                                Stem(response[i].name))) = 1

\* C3, amended: exactly N artifacts named by the filenames without extension;
\* a block is placed in the category its suffix declares provided its filename
\* contains no marker of an earlier classifier rule, and a filename holding
\* the screen markers "_screen" or "page" is a Screen whatever its suffix.
C3_SuffixCategoryUnlessEarlierMarker ==
    pc = "classified" /\ SuffixNamed(response) =>
        /\ Len(codeBlocks) = Cardinality(FileIndexes(response))
        /\ ArtifactCount(bundle) = Cardinality(FileIndexes(response))
        /\ \A i \in FileIndexes(response) :
              LET name == response[i].name
              IN  /\ ~EarlierMarker(name) =>
                        Cardinality(Named(bundle, SuffixCategory(name), Stem(name))) = 1
                  /\ Includes(name, "_screen") \/ Includes(name, "page") =>
                        Cardinality(Named(bundle, "screens", Stem(name))) = 1

\* Two suffix-named blocks were classified: a model by its suffix, and
\* page_model.dart as a screen.
C3_Witness ==
    /\ pc = "classified"
    /\ SuffixNamed(response)
    /\ Named(bundle, "models", "c_model") # {}
    /\ Named(bundle, "screens", "page_model") # {}

\* A response made of fenced blocks with filename comments only.
AllFiles(r) == Len(r) > 0 /\ \A i \in 1..Len(r) : r[i].kind = "file"

\* The first block of a response that carries a filename.
FirstNamed(r, name) ==
    r[CHOOSE i \in FileIndexes(r) :
          r[i].name = name /\ \A j \in FileIndexes(r) : r[j].name = name => i <= j]

\* C4 as stated: the extractor's mapping holds, for every filename, the
\* content of the first block that carries it.
C4_FirstMatchWins ==
    pc = "extracted" /\ AllFiles(response) =>
        \A i \in 1..Len(response) :
            /\ MapHas(codeBlocks, response[i].name)
            /\ MapGet(codeBlocks, response[i].name) = FirstNamed(response, response[i].name).body

\* Whether the artifacts of a sequence have pairwise distinct names.
UniqueNames(artifacts) ==
    \A i, j \in 1..Len(artifacts) : i # j => artifacts[i].name # artifacts[j].name

\* C5 as stated: in a returned bundle no two artifacts of one category share
\* a name.
C5_UniqueNamesPerCategory ==
    Processed =>
        /\ UniqueNames(bundle.screens)
        /\ UniqueNames(bundle.widgets)
        /\ UniqueNames(bundle.models)
        /\ UniqueNames(bundle.services)

FileNames(blocks) == {blocks[j].name : j \in 1..Len(blocks)}

\* C7: running processCodeBlocks again on the same mapping, on the state the
\* first run left or from scratch, gives the same bundle; every filename is
\* marked at most once and gives at most one artifact to at most one category.
C7_ClassifierIdempotent ==
    pc = "classified" =>
        /\ processCodeBlocks(codeBlocks, bundle) = bundle
        /\ processCodeBlocks(codeBlocks, EmptyBundle) = bundle
        /\ bundle.processedFiles \subseteq FileNames(codeBlocks)
        /\ ArtifactCount(bundle) <= Cardinality(bundle.processedFiles \ {"main.dart"})
        /\ \A k \in FileNames(codeBlocks) :
              Cardinality(Named(bundle, "screens", ReplaceFirst(k, ".dart", "")))
              + Cardinality(Named(bundle, "widgets", ReplaceFirst(k, ".dart", "")))
              + Cardinality(Named(bundle, "models", ReplaceFirst(k, ".dart", "")))
              + Cardinality(Named(bundle, "services", ReplaceFirst(k, ".dart", ""))) <= 1

\* Two files were classified into two artifacts.
C7_Witness ==
    /\ pc = "classified"
    /\ Len(codeBlocks) = 2
    /\ ArtifactCount(bundle) = 2
    /\ Cardinality(bundle.processedFiles) = 2

\* C8: at the end of the fallback extractor, four empty arrays become one
\* widget named error_widget whose code quotes the first 500 characters of
\* the response and no more; otherwise the arrays stay as the scans left them.
C8_ErrorWidgetOnlyWhenEmpty ==
    [][pc = "fallbackScanned" /\ pc' = "processed" =>
          IF ArtifactCount(bundle) = 0
          THEN /\ ArtifactCount(bundle') = 1
               /\ Len(bundle'.widgets) = 1
               /\ bundle'.widgets[1].name = "error_widget"
               /\ \E n \in 0..500 :
                     /\ n = Len(content.text) \/ (n = 500 /\ Len(content.text) > 500)
                     /\ bundle'.widgets[1].dartCode
                          = ErrorWidgetHead \o SubSeq(content.text, 1, n) \o ErrorWidgetTail
          ELSE /\ bundle'.screens = bundle.screens
               /\ bundle'.widgets = bundle.widgets
               /\ bundle'.models = bundle.models
               /\ bundle'.services = bundle.services]_vars

\* The fallback found nothing in a response longer than 500 characters and
\* returned the error widget.
C8_Witness ==
    /\ pc = "processed"
    /\ usedFallback
    /\ Len(content.text) > 500
    /\ Len(bundle.widgets) = 1
    /\ bundle.widgets[1].name = "error_widget"
    /\ ArtifactCount(bundle) = 1

HasContent == ~content.isNull /\ Len(content.text) > 0

\* C9: once the LLM call has returned non-empty content the request is never
\* failed and has thrown no error: it is at a step of processCode or of
\* navigation, or it has returned its bundle.
C9_ContentNeverFails ==
    HasContent =>
        /\ pc # "failed"
        /\ thrown = ""
        /\ pc \in {"responded", "extracted", "classified", "fallbackScanned",
                   "processed", "returned"}
        /\ pc = "returned" => ArtifactCount(bundle) > 0 \/ bundle.mainApp.defined

\* A response without code was returned as a bundle although navigation
\* synthesis gave nothing.
C9_Witness ==
    /\ pc = "returned"
    /\ ~content.isNull
    /\ ~Includes(content.text, "class")
    /\ usedFallback
    /\ projectId # ""
    /\ navigationFiles = NoNavigation
    /\ ArtifactCount(bundle) = 1

\* The views whose lower-cased name contains a keyword.
ViewsWith(vs, keyword) == {k \in 1..Len(vs) : Includes(ToLowerCase(vs[k].nombre), keyword)}

\* The view keyword priority selects: the first view holding the first
\* keyword, of the list in its order, that any view holds; view 1 when no view
\* holds a keyword.
KeywordChoice(vs) ==
    LET hit == {n \in 1..Len(initialPatterns) : ViewsWith(vs, initialPatterns[n]) # {}}
    IN  IF hit = {} THEN 1
        ELSE LET first == CHOOSE n \in hit : \A m \in hit : n <= m
                 views == ViewsWith(vs, initialPatterns[first])
             IN  CHOOSE k \in views : \A j \in views : k <= j

\* C10 as stated: for a project of 2 views or more the initial route of the
\* generated main.dart is the route of the view that keyword priority selects,
\* whatever the view's position.
C10_InitialByKeywordPriority ==
    navPc = "done" /\ navResult.kind = "structure" =>
        Includes(navResult.files.mainApp,
                 "initialRoute: '" \o navResult.routes[KeywordChoice(vistas)].path \o "',")

\* The figuraService calls among the operations invoked so far.
FiguraCallsMade == {j \in 1..Len(calls) : calls[j].service = "figura"}

\* vistaService.findAll gave fewer than 2 views: no list, or a list of 0 or 1.
FewerThanTwoViews == found = "null" \/ (found = "list" /\ Len(vistas) < 2)

\* C11: when the view service returns no list or fewer than 2 views,
\* generateNavigationForProject returns null (a returned value, neither a
\* structure nor a thrown error) and no figuraService operation is invoked.
C11_FewViewsGiveNull ==
    FewerThanTwoViews =>
        /\ navPc = "done"
        /\ navResult = NoNavigation
        /\ navResult.kind # "thrown"
        /\ FiguraCallsMade = {}
        /\ settled = <<>>

C11_Witness ==
    /\ navPc = "done"
    /\ found = "list"
    /\ Len(vistas) = 1
    /\ calls = <<VistaFindAll(NavProjectId)>>

\* A step in which the fetch of view k fails.
FetchFails(k) == settled[k] = "pending" /\ settled'[k] = "caught"

\* The views other than k are as they were.
SiblingsUntouched(k) ==
    \A j \in 1..Len(vistas) :
        j # k => settled'[j] = settled[j] /\ figuras'[j] = figuras[j]

\* The route table of a result has one entry per view, in view order, with
\* the number of figuras each fetch gave (none for a failed fetch).
OneRoutePerView(result) ==
    /\ result.kind = "structure"
    /\ Len(result.routes) = Len(vistas)
    /\ \A k \in 1..Len(vistas) :
          /\ result.routes[k].description = vistas[k].nombre
          /\ result.routes[k].figuraCount =
                 IF settled[k] = "caught" THEN 0 ELSE Len(figuras[k])

\* C12: the per-view fetches are one fan-out, wait-for-all step. A failing
\* fetch leaves the synthesis fetching, its siblings as they were (pending
\* ones stay pending, fulfilled ones keep their figuras) and the failed view
\* with no figuras; the synthesis ends only when every fetch has settled, and
\* then with one route per view in view order, whatever the order in which
\* the fetches completed or failed.
C12_FanOutWaitsForAll ==
    [][/\ \A k \in 1..Len(vistas) :
             FetchFails(k) =>
                 /\ navPc' = "fetching"
                 /\ navResult' = navResult
                 /\ figuras'[k] = <<>>
                 /\ SiblingsUntouched(k)
       /\ (navPc = "fetching" /\ navPc' = "done") =>
                 /\ \A k \in 1..Len(vistas) : settled[k] # "pending"
                 /\ settled' = settled /\ vistas' = vistas /\ figuras' = figuras
                 /\ OneRoutePerView(navResult')]_vars

C12_Witness ==
    /\ navPc = "done"
    /\ Len(vistas) = 3
    /\ settled = <<"fulfilled", "caught", "fulfilled">>
    /\ navResult.kind = "structure"
    /\ Len(navResult.routes) = 3
    /\ navResult.routes[1].figuraCount = 2
    /\ navResult.routes[2].figuraCount = 0
    /\ navResult.routes[3].figuraCount = 2

\* One of the two services could not be resolved.
ServiceUnavailable == services \in {"noVistaService", "noFiguraService"}

\* C13: when the view service or the figure service cannot be resolved,
\* generateNavigationForProject ends with an error thrown to its caller (not
\* with the null it returns for a project of fewer than 2 views) and no
\* service operation is invoked.
C13_UnavailableFailsFast ==
    ServiceUnavailable =>
        /\ navPc = "done"
        /\ navResult.kind = "thrown"
        /\ navResult # NoNavigation
        /\ calls = <<>>

\* The records of the create calls that were fulfilled, in call order.
RECURSIVE FulfilledFrom(_, _)
FulfilledFrom(log, n) ==
    IF n > Len(log) THEN <<>>
    ELSE (IF log[n].fulfilled THEN <<CreatedFigure(n, log[n].data)>> ELSE <<>>)
         \o FulfilledFrom(log, n + 1)

\* The elements the for loop is done with.
ElementsDone == IF uiPc = "returned" THEN Len(uiElements) ELSE uiIndex - 1

\* C14: createFiguresFromUIElements calls create once per element, in input
\* order, with that element's data; a rejected create neither stops the
\* batch nor fails the request; createdFigures is exactly the records of the
\* fulfilled calls, in input order, and never longer than the batch.
C14_OneCreatePerElement ==
    /\ createCalls # <<>> => uiPc \in {"creating", "returned"}
    /\ uiPc \in {"creating", "returned"} =>
          /\ Len(createCalls) = ElementsDone
          /\ \A n \in 1..Len(createCalls) :
                createCalls[n].data = figuraDataOf(uiElements[n], UIVistaId)
          /\ createdFigures = FulfilledFrom(createCalls, 1)
          /\ Len(createdFigures) <= Len(uiElements)

C14_Witness ==
    /\ uiPc = "returned"
    /\ Len(uiElements) = 2
    /\ uiElements[1] # uiElements[2]
    /\ ~createCalls[1].fulfilled
    /\ createCalls[2].fulfilled
    /\ createdFigures = <<CreatedFigure(2, createCalls[2].data)>>

\* The extraction request has passed its parsing step.
PastParsing == uiPc \in {"parsed", "creating", "returned"}

\* The text the extraction method takes as the array: the span from the
\* first "[ {" to the last "} ]" when the content has one, else the content.
ArraySource(text) ==
    LET Source(m) == IF m.found THEN m.text ELSE text
    IN  Source(matchJsonArray(text))

\* C15 as stated: a request whose LLM content is missing, or is not itself a
\* JSON array (unparseable text or another JSON value), never gets past
\* parsing and never calls create.
C15_NonArrayContentFails ==
    (contentMissing(uiContent) \/ ~JsonParse(uiContent.text).isArray) =>
        /\ ~PastParsing
        /\ createCalls = <<>>

\* C15, amended: a request whose LLM content is missing, or in which the
\* text taken as the array (the "[ {" ... "} ]" span when there is one, the
\* whole content otherwise) does not parse as a JSON array, never gets past
\* parsing, ends failed once parsing is done, and never calls create.
C15_NoArrayFails ==
    (contentMissing(uiContent) \/ ~JsonParse(ArraySource(uiContent.text)).isArray) =>
        /\ ~PastParsing
        /\ createCalls = <<>>
        /\ uiPc \in {"idle", "prepared", "responded", "failed"}
        /\ uiThrown # "" => uiPc = "failed"

C15_Witness ==
    /\ uiPc = "failed"
    /\ uiContent.text = "{\"tipo\":\"rect\"}"
    /\ uiThrown = ImageErrorPrefix \o BadFormat
    /\ createCalls = <<>>

\* The generation request failed on the rejection of its LLM call.
GenApiFailed == pc = "failed" /\ thrown \in {ErrorPrefix \o e : e \in ApiErrors}

\* The extraction request failed on the rejection of its LLM call.
UIApiFailed ==
    /\ uiPc = "failed"
    /\ uiThrown \in {ImageErrorPrefix \o e : e \in ApiErrors}
                    \cup {PromptErrorPrefix \o e : e \in ApiErrors}

\* No extraction, classification, navigation or persistence step has run.
NothingProcessed ==
    /\ content = NoContent /\ codeBlocks = <<>> /\ bundle = EmptyBundle
    /\ ~usedFallback /\ navigationFiles = NoNavigation
    /\ uiContent = NoContent /\ uiElements = <<>>
    /\ createCalls = <<>> /\ createdFigures = <<>>

\* C16: a request calls the LLM API at most once; when that call is
\* rejected the request is failed with nothing extracted, classified,
\* synthesised or persisted, and no step of it follows the failure.
C16_OneCallNoRetry ==
    [][/\ apiCalls' <= 1
       /\ (GenApiFailed' \/ UIApiFailed') => NothingProcessed' /\ apiCalls' = 1
       /\ (GenApiFailed \/ UIApiFailed) => UNCHANGED vars]_vars

C16_Witness ==
    /\ GenApiFailed
    /\ apiCalls = 1
    /\ NothingProcessed

\* The reference of image preparation: base64 of binary data, the text after
\* the first comma of a data-URI, any other string as it is, an
\* unsupported-format error for any other shape.
IsDataUri(s) == StartsAt(s, "data:", 1)

AfterFirstComma(s) == From(s, IndexOf(s, ",", 1) + 1)

PreparedByReference(image) ==
    IF image.type = "buffer" THEN [thrown |-> "", value |-> toBase64(image.bytes)]
    ELSE IF image.type = "string"
    THEN [thrown |-> "",
          value |-> IF IsDataUri(image.value) THEN AfterFirstComma(image.value)
                    ELSE image.value]
    ELSE [thrown |-> UnsupportedImage, value |-> ""]

\* The inputs the reference decides: all but a data-URI without a comma.
ReferenceDecides(image) ==
    image.type = "string" /\ IsDataUri(image.value) => Includes(image.value, ",")

\* C17: on every input the reference decides, the request holds the prepared
\* image the reference gives, or has failed with the unsupported-format error
\* where the reference fails.
C17_PreparationMatchesReference ==
    (dataImage # NoImage /\ ReferenceDecides(dataImage)) =>
        IF PreparedByReference(dataImage).thrown # ""
        THEN pc = "failed" /\ thrown = ErrorPrefix \o UnsupportedImage
        ELSE pc = "prepared" /\ imageBase64 = PreparedByReference(dataImage).value

\* A service operation that only reads: the view service's findAll of the
\* project, or the figure service's findAll of one of the project's views.
IsRead(call, views) ==
    /\ call.op = "findAll"
    /\ \/ call.service = "vista" /\ call.arg = NavProjectId
       \/ call.service = "figura" /\ \E k \in 1..Len(views) : call.arg = views[k].id

\* C18: in every execution of generateNavigationForProject, failing ones
\* included, every service operation invoked is one of the two findAll
\* reads, and the view records findAll resolved to are never changed.
C18_ReadsOnly ==
    [][/\ \A j \in 1..Len(calls') : IsRead(calls'[j], vistas')
       /\ found = "list" => vistas' = vistas]_vars

C18_Witness ==
    /\ navPc = "done"
    /\ navResult.kind = "structure"
    /\ Len(vistas) = 3
    /\ Len(calls) = 4
    /\ settled[2] = "caught"
    /\ \A j \in 1..Len(calls) : IsRead(calls[j], vistas)

\* s without the characters of the set drop.
RECURSIVE Without(_, _)
Without(s, drop) ==
    IF s = "" THEN ""
    ELSE (IF CharAt(s, 1) \in drop THEN "" ELSE CharAt(s, 1)) \o Without(From(s, 2), drop)

\* The words of a display name, split at its spaces.
RECURSIVE WordsOf(_)
WordsOf(s) ==
    LET sp == IndexOf(s, " ", 1)
    IN  IF s = "" THEN <<>>
        ELSE IF sp = 0 THEN <<s>>
        ELSE IF sp = 1 THEN WordsOf(From(s, 2))
        ELSE <<Substring0(s, sp - 1)>> \o WordsOf(From(s, sp + 1))

\* The capitalized-word form: each word with its first letter in upper case
\* and the rest in lower case, joined.
RECURSIVE CapitalizedWords(_)
CapitalizedWords(words) ==
    IF Len(words) = 0 THEN ""
    ELSE UpperChar(CharAt(words[1], 1)) \o ToLowerCase(From(words[1], 2))
         \o CapitalizedWords(Tail(words))

\* A lowercase, underscore-separated form of a display name: no upper-case
\* letter, no white space, the letters and digits of the display name in
\* lower case, and an underscore wherever the display name has a space.
IsSnakeFormOf(name, display) ==
    /\ \A i \in 1..Len(name) : ~IsUpper(CharAt(name, i)) /\ ~IsSpace(CharAt(name, i))
    /\ Without(name, {"_"}) = ToLowerCase(Without(display, {" "}))
    /\ Len(Without(name, LowerSet \cup DigitSet)) >= Len(WordsOf(display)) - 1
    /\ CharAt(name, 1) # "_" /\ CharAt(name, Len(name)) # "_"

\* C19: in every navigation structure, the route of each view has a name
\* that is a lowercase, underscore-separated form of the view's display
\* name, the screen name made of the capitalized words of the display name
\* followed by "Screen", and the path "/" followed by the name.
C19_RouteNamesDerived ==
    navResult.kind = "structure" =>
        \A k \in 1..Len(vistas) :
            /\ IsSnakeFormOf(navResult.routes[k].name, vistas[k].nombre)
            /\ navResult.routes[k].screenName
                   = CapitalizedWords(WordsOf(vistas[k].nombre)) \o "Screen"
            /\ navResult.routes[k].path = "/" \o navResult.routes[k].name

C19_Witness ==
    /\ navResult.kind = "structure"
    /\ vistas[2].nombre = "User Profile 2"
    /\ navResult.routes[2].name = "user__profile_2"
    /\ navResult.routes[2].screenName = "UserProfile2Screen"
    /\ navResult.routes[2].path = "/user__profile_2"

\* The four artifacts of a navigation result: the route map, the navigation
\* helper, the updated bootstrap and the drawer-navigation widget.
FourArtifacts == {"appRoutes", "navigationUtils", "mainApp", "appNavigation"}

\* The bootstrap names, as its initial route, the path or the name of a route
\* of the table.
InitialRouteInTable(result) ==
    \E k \in 1..Len(result.routes) :
        \/ Includes(result.files.mainApp,
                    "initialRoute: '" \o result.routes[k].path \o "'")
        \/ Includes(result.files.mainApp,
                    "initialRoute: '" \o result.routes[k].name \o "'")

\* C20: every navigation structure a generation request returns holds the
\* route table and the four generated artifacts, and the initial route of
\* its bootstrap is a route of the table.
C20_RouteTableAndFourArtifacts ==
    (pc = "returned" /\ navigationFiles.kind = "structure") =>
        /\ Len(navigationFiles.routes) >= 2
        /\ DOMAIN navigationFiles.files = FourArtifacts
        /\ InitialRouteInTable(navigationFiles)

\* main.dart holds the bootstrap with an entry of its route map for every
\* route of the table, the navigation helper and the drawer widget.
MainAppHoldsAll(result) ==
    /\ Includes(result.files.mainApp, "void main() {")
    /\ Includes(result.files.mainApp, "class AppNavigation {")
    /\ Includes(result.files.mainApp, "class AppDrawer extends StatelessWidget {")
    /\ \A k \in 1..Len(result.routes) :
          Includes(result.files.mainApp,
                   "'" \o result.routes[k].path \o "': (context) => "
                       \o result.routes[k].screenName \o "(),")

\* C20, amended: every navigation structure a generation request returns
\* holds the route table and one generated artifact, main.dart, which holds
\* the bootstrap with the route map, the navigation helper and the drawer
\* widget; the initial route of the bootstrap is a route of the table.
C20_RouteTableAndMainApp ==
    (pc = "returned" /\ navigationFiles.kind = "structure") =>
        /\ Len(navigationFiles.routes) >= 2
        /\ DOMAIN navigationFiles.files = {"mainApp"}
        /\ MainAppHoldsAll(navigationFiles)
        /\ InitialRouteInTable(navigationFiles)

C20_Witness ==
    /\ pc = "returned"
    /\ navigationFiles.kind = "structure"
    /\ Len(navigationFiles.routes) = 2
    /\ navigationFiles.routes[1].path = "/settings"
    /\ Includes(navigationFiles.files.mainApp, "initialRoute: '/settings'")

(***************************************************************************)
(* processCode on labelled responses: the request has reached the point    *)
(* where callOpenAI resolved with a response whose blocks exercise every   *)
(* rule of the classifier and of inferFileNameFromContent.                 *)
(***************************************************************************)
ScreenBody == "class HomeScreen extends StatelessWidget {}"

WidgetBody == "class Badge extends StatefulWidget {}"

ModelBody == "class User { final int id; }"

ServiceBody == "class ApiRepository extends Base {}"

PlainBody == "int x = 1;"

MainBody == "void main() { runApp(const MyApp()); }"

\* Fenced blocks with a filename comment: every filename rule alone, pairs of
\* rules in one filename, and filenames no rule matches with each content.
LabelledPieces ==
    { FileBlock("a_screen.dart", ModelBody),
      FileBlock("home_page.dart", ServiceBody),
      FileBlock("page_widget.dart", WidgetBody),
      FileBlock("b_widget.dart", ScreenBody),
      FileBlock("screen_widget.dart", ModelBody),
      FileBlock("widget_model.dart", ModelBody),
      FileBlock("c_model.dart", WidgetBody),
      FileBlock("model_service.dart", ServiceBody),
      FileBlock("d_service.dart", ModelBody),
      FileBlock("e_provider.dart", PlainBody),
      FileBlock("util.dart", ScreenBody),
      FileBlock("util.dart", WidgetBody),
      FileBlock("helper.dart", ModelBody),
      FileBlock("helper.dart", ServiceBody),
      FileBlock("notes.dart", PlainBody),
      FileBlock("main.dart", MainBody) }

\* Fenced dart blocks without a filename comment, one per content signature.
UnlabelledPieces ==
    { DartBlock(MainBody), DartBlock("runApp(const Demo());"),
      DartBlock(ScreenBody), DartBlock(WidgetBody),
      DartBlock(ModelBody), DartBlock(ServiceBody), DartBlock("class lowservice extends B {}"),
      DartBlock(PlainBody) }

\* Responses of 1..n labelled blocks, or of 1..n unlabelled blocks.
LabelledResponses(n) ==
    UNION {[1..k -> LabelledPieces] \cup [1..k -> UnlabelledPieces] : k \in 1..n}

\* The state in which callOpenAI has resolved with such a response.
InitProcess ==
    /\ pc = "responded"
    /\ projectId = ""
    /\ dataImage = NoImage
    /\ imageBase64 = ""
    /\ response \in LabelledResponses(MaxPieces)
    /\ content = [isNull |-> FALSE, text |-> Render(response)]
    /\ codeBlocks = <<>>
    /\ bundle = EmptyBundle
    /\ usedFallback = FALSE
    /\ navigationFiles = NoNavigation
    /\ thrown = ""
    /\ navPc = "idle"
    /\ services = "unresolved"
    /\ found = "pending"
    /\ calls = <<>>
    /\ vistas = <<>>
    /\ settled = <<>>
    /\ figuras = <<>>
    /\ navResult = NoNavigation
    /\ uiPc = "idle"
    /\ uiPath = ""
    /\ uiImage = ""
    /\ uiContent = NoContent
    /\ uiElements = <<>>
    /\ uiIndex = 0
    /\ createCalls = <<>>
    /\ createdFigures = <<>>
    /\ uiThrown = ""
    /\ apiCalls = 1
    /\ ctlPc = "idle"
    /\ ctlRequest = NoRequest
    /\ ctlResult = NoResult
    /\ runs = <<>>

ProcessNext ==
    \/ ExtractFileBlocks
    \/ ProcessCodeBlocks
    \/ TakeFallback
    \/ FinishFallback
    \/ SupplyMainApp

SpecProcess == InitProcess /\ [][ProcessNext]_vars

\* The category of the first filename rule that matches, "" when none does.
FirstFilenameRule(fileName) ==
    LET rules == << <<"screens", Includes(fileName, "_screen") \/ Includes(fileName, "page")>>,
                    <<"widgets", Includes(fileName, "_widget")
                                   \/ (Includes(fileName, "widget")
                                          /\ ~Includes(fileName, "screen"))>>,
                    <<"models", Includes(fileName, "model")>>,
                    <<"services", Includes(fileName, "service")
                                    \/ Includes(fileName, "provider")>> >>
        hits == {k \in 1..4 : rules[k][2]}
    IN  IF hits = {} THEN "" ELSE rules[CHOOSE k \in hits : \A h \in hits : k <= h][1]

\* The category of the first content signature that matches, "" when none.
FirstContentSignature(codeContent) ==
    LET component == Includes(codeContent, "StatefulWidget")
                        \/ Includes(codeContent, "StatelessWidget")
    IN  CASE component /\ (Includes(codeContent, "Screen") \/ Includes(codeContent, "Page"))
               -> "screens"
          [] component /\ ~(Includes(codeContent, "Screen") \/ Includes(codeContent, "Page"))
               -> "widgets"
          [] ~component /\ Includes(codeContent, "class") /\ ~Includes(codeContent, "extends")
               -> "models"
          [] /\ ~component
             /\ ~(Includes(codeContent, "class") /\ ~Includes(codeContent, "extends"))
             /\ \/ Includes(codeContent, "Service") \/ Includes(codeContent, "Provider")
                \/ Includes(codeContent, "Repository")
               -> "services"
          [] OTHER -> ""

Categories == {"screens", "widgets", "models", "services"}

\* The categories of a bundle that hold an artifact of a name.
CategoriesHolding(b, name) == {c \in Categories : Named(b, c, name) # {}}

\* C21: once the classifier has run, every extracted filename other than
\* main.dart is marked processed; it lies in exactly the category of the
\* first filename rule that matches, in the order screen/page, widget, model,
\* service/provider; when no filename rule matches it lies in exactly the
\* category of the first content signature, and in no category when no
\* content signature matches either.
C21_FirstFilenameRuleThenContent ==
    pc = "classified" =>
        \A j \in 1..Len(codeBlocks) :
            LET fileName == codeBlocks[j].name
                byName == FirstFilenameRule(fileName)
                byContent == FirstContentSignature(codeBlocks[j].code)
                holding == CategoriesHolding(bundle, Stem(fileName))
            IN  fileName # "main.dart" =>
                    /\ fileName \in bundle.processedFiles
                    /\ byName # "" =>
                          /\ holding = {byName}
                          /\ Cardinality(Named(bundle, byName, Stem(fileName))) = 1
                    /\ byName = "" /\ byContent # "" =>
                          /\ holding = {byContent}
                          /\ Cardinality(Named(bundle, byContent, Stem(fileName))) = 1
                    /\ byName = "" /\ byContent = "" => holding = {}

\* The classifier has run on page_widget.dart (screen rule before the widget
\* rule, against a widget content) and on notes.dart, which no rule and no
\* signature matches.
C21_Witness ==
    /\ pc = "classified"
    /\ MapHas(codeBlocks, "page_widget.dart")
    /\ MapHas(codeBlocks, "notes.dart")
    /\ Named(bundle, "screens", "page_widget") # {}
    /\ "notes.dart" \in bundle.processedFiles
    /\ CategoriesHolding(bundle, "notes") = {}

\* What extraction plus classification yield for the response text.
PrimaryBundle == processCodeBlocks(extractFileBlocks(content.text), EmptyBundle)

\* C22: the fallback extractor is entered only from a classified bundle with
\* no screen, widget, model, service and no main entry; and a request that
\* has processed a response for which the primary path yields an artifact or
\* a main entry has not used the fallback and holds the primary path's
\* arrays and main entry.
C22_FallbackOnlyWhenEmpty ==
    /\ usedFallback /\ pc # "failed" =>
          ArtifactCount(PrimaryBundle) = 0 /\ ~PrimaryBundle.mainApp.defined
    /\ Processed =>
          LET Kept(primary) ==
                  ArtifactCount(primary) > 0 \/ primary.mainApp.defined =>
                      /\ ~usedFallback
                      /\ bundle.screens = primary.screens
                      /\ bundle.widgets = primary.widgets
                      /\ bundle.models = primary.models
                      /\ bundle.services = primary.services
                      /\ primary.mainApp.defined => bundle.mainApp = primary.mainApp
          IN  Kept(PrimaryBundle)

\* A request returned the one model the primary path classified although
\* the text also holds a widget class the fallback scan would have found.
C22_Witness ==
    /\ pc = "processed"
    /\ ~usedFallback
    /\ Len(bundle.models) = 1
    /\ bundle.screens = <<>>
    /\ Len(fallbackScan(content.text).screens) > 0

\* A response made of fenced dart blocks without filename comment only.
AllUnlabelled(r) == Len(r) > 0 /\ \A i \in 1..Len(r) : r[i].kind = "dart"

\* The name the first matching content signature gives the block of an
\* index: <<prefix, whether the name carries the index>>.
SynthesizedName(body, index) ==
    LET component == Includes(body, "StatefulWidget") \/ Includes(body, "StatelessWidget")
        signatures ==
            << <<Includes(body, "void main()") \/ Includes(body, "runApp("), "main", FALSE>>,
               <<component /\ (Includes(body, "Screen") \/ Includes(body, "Page")),
                 "screen", TRUE>>,
               <<component, "widget", TRUE>>,
               <<Includes(body, "class") /\ ~Includes(body, "extends"), "model", TRUE>>,
               <<Includes(body, "service") \/ Includes(body, "Service")
                    \/ Includes(body, "Repository"), "service", TRUE>>,
               <<TRUE, "file", TRUE>> >>
        first == CHOOSE k \in 1..6 : signatures[k][1] /\ \A h \in 1..(k - 1) : ~signatures[h][1]
    IN  IF signatures[first][3]
        THEN signatures[first][2] \o "_" \o ToString(index) \o ".dart"
        ELSE signatures[first][2] \o ".dart"

\* Whether the classified bundle holds a block in the place its synthesized
\* name denotes (file_<i>.dart denotes none).
PlacedByName(b, name, body) ==
    CASE name = "main.dart" -> b.mainApp = MainAppOf(body)
      [] StartsAt(name, "screen_", 1) ->
            \E k \in Named(b, "screens", Stem(name)) : b.screens[k].code = body
      [] StartsAt(name, "widget_", 1) ->
            \E k \in Named(b, "widgets", Stem(name)) : b.widgets[k].dartCode = body
      [] StartsAt(name, "model_", 1) ->
            \E k \in Named(b, "models", Stem(name)) : b.models[k].code = body
      [] StartsAt(name, "service_", 1) ->
            \E k \in Named(b, "services", Stem(name)) : b.services[k].code = body
      [] OTHER -> TRUE

\* C23 as stated: for a response of fenced dart blocks without filename
\* comment, every block is held by the mapping under the name its first
\* matching content signature gives (main.dart, screen_<i>, widget_<i>,
\* model_<i>, service_<i>, file_<i>), and the classifier places every block
\* in the category that name denotes.
C23_EveryBlockNamedAndPlaced ==
    pc = "classified" /\ AllUnlabelled(response) =>
        \A i \in 1..Len(response) :
            LET Held(name, body) ==
                    /\ MapHas(codeBlocks, name)
                    /\ MapGet(codeBlocks, name) = body
                    /\ PlacedByName(bundle, name, body)
            IN  Held(SynthesizedName(response[i].body, i - 1), response[i].body)

(***************************************************************************)
(* The controller: the handlers of generate-ui-from-image and of           *)
(* generate-flutter-from-screenshot around the service.                    *)
(***************************************************************************)
Endpoints == {"ui", "flutter"}

\* What @UploadedFile() may hand the handler: nothing, a file held in memory,
\* a file on disk that can or cannot be read, a file with neither.
Uploads == {"none", "buffer", "path", "unreadablePath", "neither"}

\* vistaId / pageName of the body: absent or empty, blank, given.
BodyIds == {"", "  ", "v1"}

NoImageMessage == "No se proporcionó ninguna imagen"

NoIdMessage(endpoint) ==
    IF endpoint = "ui" THEN "El ID de la vista es obligatorio"
    ELSE "El nombre de la página es obligatorio"

BadImageMessage == "Formato de imagen no válido"

UnreadableMessage == "ENOENT: no such file or directory, open 'uploads/upload-1.png'"

CatchPrefix(endpoint) ==
    IF endpoint = "ui" THEN "Error al procesar imagen de UI: "
    ELSE "Error al generar código Flutter desde captura: "

SuccessMessage(endpoint) ==
    IF endpoint = "ui" THEN "Elementos de UI extraídos exitosamente"
    ELSE "Código Flutter generado exitosamente a partir de captura de pantalla"

\* A handler whose catch block rethrows.
CtlCatchRethrows(endpoint, message) ==
    /\ ctlPc' = "thrown"
    /\ ctlResult' = NoResult

\* catch (error): the handler returns the failure record.
CtlCatch(endpoint, message) ==
    /\ ctlPc' = "returned"
    /\ ctlResult' = [success |-> FALSE, message |-> CatchPrefix(endpoint) \o message,
                     error |-> message, returned |-> TRUE]

\* The checks the handler makes before it calls the service: the first that
\* fails throws its message ("" when all pass).
handlerRejects(endpoint, upload, id) ==
    IF upload = "none" THEN NoImageMessage
    ELSE IF id = "" \/ Trim(id) = "" THEN NoIdMessage(endpoint)
    ELSE IF upload = "buffer" THEN ""
    ELSE IF upload = "path" THEN ""
    ELSE IF upload = "unreadablePath" THEN UnreadableMessage
    ELSE BadImageMessage

\* The handler up to the call of the service.
CtlHandle ==
    /\ ctlPc = "idle"
    /\ \E endpoint \in Endpoints, upload \in Uploads, id \in BodyIds :
          LET Checked(message) ==
                  IF message # "" THEN CtlCatch(endpoint, message)
                  ELSE ctlPc' = "calling" /\ UNCHANGED ctlResult
          IN  /\ ctlRequest' = [endpoint |-> endpoint, upload |-> upload, id |-> id]
              /\ Checked(handlerRejects(endpoint, upload, id))
    /\ UNCHANGED <<genVars, navVars, uiVars, apiCalls, runs>>

\* The image the handler passes on is a Buffer.
Buffers == {image \in Images : image.type = "buffer"}

Calling(endpoint) == ctlPc = "calling" /\ ctlRequest.endpoint = endpoint

\* The awaited service call resolved: the success record.
CtlReturn ==
    /\ \/ Calling("ui") /\ uiPc = "returned"
       \/ Calling("flutter") /\ pc = "returned"
    /\ ctlPc' = "returned"
    /\ ctlResult' = [success |-> TRUE, message |-> SuccessMessage(ctlRequest.endpoint),
                     error |-> "", returned |-> TRUE]
    /\ UNCHANGED <<ctlRequest, genVars, navVars, uiVars, apiCalls, runs>>

\* The awaited service call rejected: the catch block.
CtlServiceFailed ==
    /\ \/ Calling("ui") /\ uiPc = "failed" /\ CtlCatch("ui", uiThrown)
       \/ Calling("flutter") /\ pc = "failed" /\ CtlCatch("flutter", thrown)
    /\ UNCHANGED <<ctlRequest, genVars, navVars, uiVars, apiCalls, runs>>

\* The handlers pass no projectId: the navigation step is never entered.
ControllerNext ==
    \/ CtlHandle
    \/ Calling("flutter") /\ PrepareImageFrom(Buffers, {""})
    \/ CallOpenAI
    \/ ExtractFileBlocks
    \/ ProcessCodeBlocks
    \/ TakeFallback
    \/ FinishFallback
    \/ SupplyMainApp
    \/ SkipNavigation
    \/ Calling("ui") /\ UIPrepareImageFrom(Buffers)
    \/ UICallOpenAI
    \/ UIParseElements
    \/ UIGetFiguraService
    \/ UICreateFulfilled
    \/ UICreateRejected
    \/ CtlReturn
    \/ CtlServiceFailed

SpecController == Init /\ [][ControllerNext]_vars

\* The request failed one of the handler's own checks on image and id.
MissingInput ==
    ctlRequest.upload = "none" \/ ctlRequest.id = "" \/ Trim(ctlRequest.id) = ""

ServiceUntouched == pc = "idle" /\ uiPc = "idle" /\ apiCalls = 0

ServiceFailure ==
    IF ctlRequest.endpoint = "ui" THEN IF uiPc = "failed" THEN uiThrown ELSE ""
    ELSE IF pc = "failed" THEN thrown ELSE ""

\* C24: the handlers of generateUIFromImage and
\* generateFlutterCodeFromScreenshot never end in a thrown exception; a
\* request with a missing image or a blank vistaId / pageName never reaches
\* the service or the LLM API; and every failure (missing image, blank id,
\* unreadable or malformed upload, failed service call) is returned as
\* success = false with the raw error text in error and, after a prefix, in
\* message.
C24_HandlersReturnFailures ==
    /\ ctlPc \in {"idle", "calling", "returned"}
    /\ ctlPc # "idle" /\ MissingInput => ServiceUntouched /\ ctlPc = "returned"
    /\ ctlPc = "returned" =>
          LET Failed(raw) ==
                  /\ raw # "" <=> ~ctlResult.success
                  /\ raw # "" =>
                        /\ ctlResult.error = raw
                        /\ ctlResult.message = CatchPrefix(ctlRequest.endpoint) \o raw
              Raw(rejected) == IF rejected # "" THEN rejected ELSE ServiceFailure
          IN  /\ ctlResult.returned
              /\ Failed(Raw(handlerRejects(ctlRequest.endpoint, ctlRequest.upload,
                                             ctlRequest.id)))

\* A handler returned the failure of its service call, made after the LLM
\* call, for a request whose image and id passed the checks.
C24_Witness ==
    /\ ctlPc = "returned"
    /\ ~ctlResult.success
    /\ ~MissingInput
    /\ ServiceFailure # ""
    /\ ctlResult.error = ServiceFailure
    /\ apiCalls = 1

(***************************************************************************)
(* Two generation requests in progress together on one service instance.   *)
(* The instance holds the OpenAI client, the logger and the two injected   *)
(* references, assigned in the constructor and only read afterwards; what  *)
(* a request works on are the locals of its own calls, held in runs[r].    *)
(***************************************************************************)
RunIds == {1, 2}

\* The LLM's answers to the two requests.
RunTexts ==
    { Render(<<FileBlock("a_screen.dart", ScreenBody), FileBlock("c_model.dart", ModelBody)>>),
      Render(<<DartBlock(WidgetBody)>>),
      Render(<<Loose("class HomeScreen extends StatelessWidget {}\n" \o Fence \o "\n")>>),
      "Lo siento.\n" }

\* The project of a request: none, or one of two views.
RunProjects ==
    { [projectId |-> "", env |-> CHOOSE e \in NavEnvs : ~e.available],
      [projectId |-> "p1", env |-> CHOOSE e \in NavEnvs : Len(e.vistas) = 2] }

\* A request that has prepared its image and awaits the LLM.
RunStart(text, project) ==
    [pc |-> "prepared", text |-> text, project |-> project, content |-> NoContent,
     codeBlocks |-> <<>>, bundle |-> EmptyBundle, usedFallback |-> FALSE,
     navigationFiles |-> NoNavigation]

InitRuns ==
    /\ pc = "idle"
    /\ projectId = ""
    /\ dataImage = NoImage
    /\ imageBase64 = ""
    /\ response = <<>>
    /\ content = NoContent
    /\ codeBlocks = <<>>
    /\ bundle = EmptyBundle
    /\ usedFallback = FALSE
    /\ navigationFiles = NoNavigation
    /\ thrown = ""
    /\ navPc = "idle"
    /\ services = "unresolved"
    /\ found = "pending"
    /\ calls = <<>>
    /\ vistas = <<>>
    /\ settled = <<>>
    /\ figuras = <<>>
    /\ navResult = NoNavigation
    /\ uiPc = "idle"
    /\ uiPath = ""
    /\ uiImage = ""
    /\ uiContent = NoContent
    /\ uiElements = <<>>
    /\ uiIndex = 0
    /\ createCalls = <<>>
    /\ createdFigures = <<>>
    /\ uiThrown = ""
    /\ apiCalls = 0
    /\ ctlPc = "idle"
    /\ ctlRequest = NoRequest
    /\ ctlResult = NoResult
    /\ runs \in [RunIds -> {RunStart(text, project) : text \in RunTexts,
                                                       project \in RunProjects}]

\* A step of request r: its locals change, nothing else does.
RunStep(r, pcNow, next) ==
    /\ runs[r].pc = pcNow
    /\ runs' = [runs EXCEPT ![r] = next]
    /\ UNCHANGED <<genVars, navVars, uiVars, ctlVars>>

\* An extraction step that fills a map held by the instance.
RunExtractShared(r) ==
    /\ runs[r].pc = "responded"
    /\ runs' = [q \in RunIds |->
                  IF q = r
                  THEN [runs[q] EXCEPT !.pc = "extracted",
                                       !.codeBlocks = extractFileBlocks(runs[r].content.text)]
                  ELSE [runs[q] EXCEPT !.codeBlocks = extractFileBlocks(runs[r].content.text)]]
    /\ apiCalls' = apiCalls
    /\ UNCHANGED <<genVars, navVars, uiVars, ctlVars>>

RunCallOpenAI(r) ==
    /\ apiCalls' = apiCalls + 1
    /\ RunStep(r, "prepared",
               [runs[r] EXCEPT !.pc = "responded",
                               !.content = [isNull |-> FALSE, text |-> runs[r].text]])

RunExtract(r) ==
    /\ UNCHANGED apiCalls
    /\ RunStep(r, "responded",
               [runs[r] EXCEPT !.pc = "extracted",
                               !.codeBlocks = extractFileBlocks(runs[r].content.text)])

RunClassify(r) ==
    /\ UNCHANGED apiCalls
    /\ RunStep(r, "extracted",
               [runs[r] EXCEPT !.pc = "classified",
                               !.bundle = processCodeBlocks(runs[r].codeBlocks, @)])

RunFallback(r) ==
    /\ UNCHANGED apiCalls
    /\ takesFallback(runs[r].bundle)
    /\ RunStep(r, "classified",
               [runs[r] EXCEPT !.pc = "processed", !.usedFallback = TRUE,
                               !.bundle = extractWithExtendedPatterns(runs[r].content.text)])

RunSupplyMainApp(r) ==
    /\ UNCHANGED apiCalls
    /\ ~takesFallback(runs[r].bundle)
    /\ RunStep(r, "classified",
               [runs[r] EXCEPT !.pc = "processed", !.bundle = withMainApp(@)])

RunNavigate(r) ==
    /\ UNCHANGED apiCalls
    /\ RunStep(r, "processed",
               [runs[r] EXCEPT !.pc = "returned",
                               !.navigationFiles =
                                   IF runs[r].project.projectId = "" THEN NoNavigation
                                   ELSE generateNavigationForProject(runs[r].project.env)])

RunsNext ==
    \E r \in RunIds :
        \/ RunCallOpenAI(r)
        \/ RunExtract(r)
        \/ RunClassify(r)
        \/ RunFallback(r)
        \/ RunSupplyMainApp(r)
        \/ RunNavigate(r)

SpecRuns == InitRuns /\ [][RunsNext]_vars

\* What a request returns when it runs alone: processCode on the LLM's
\* answer, then the navigation files of its project.
processCode(responseText) ==
    LET Returned(primary) ==
            IF takesFallback(primary) THEN extractWithExtendedPatterns(responseText)
            ELSE withMainApp(primary)
    IN  Returned(processCodeBlocks(extractFileBlocks(responseText), EmptyBundle))

\* C25: whatever the interleaving of the steps of two requests on one
\* service instance, each request returns the bundle and the navigation
\* files it returns when run alone on the same LLM answer and the same
\* collaborator responses.
C25_RequestsIndependent ==
    \A r \in DOMAIN runs :
        runs[r].pc = "returned" =>
            /\ runs[r].bundle = processCode(runs[r].text)
            /\ runs[r].navigationFiles =
                  IF runs[r].project.projectId = "" THEN NoNavigation
                  ELSE generateNavigationForProject(runs[r].project.env)

\* Two requests on different answers have both returned, one through the
\* fallback extractor and one through the classifier, each with its own
\* bundle.
C25_Witness ==
    /\ DOMAIN runs = RunIds
    /\ runs[1].pc = "returned"
    /\ runs[2].pc = "returned"
    /\ runs[1].text # runs[2].text
    /\ runs[1].bundle # runs[2].bundle
    /\ runs[1].usedFallback /\ ~runs[2].usedFallback

\* The entries of a route table that are marked initial.
InitialEntries(routes) == {k \in 1..Len(routes) : routes[k].isInitial}

\* C26 as stated: the route table of every navigation structure (made for
\* 2 views or more) has exactly one entry with isInitial = true, and the
\* generated main.dart names that entry's path as its initial route.
C26_ExactlyOneInitial ==
    navResult.kind = "structure" =>
        /\ Len(navResult.routes) >= 2
        /\ Cardinality(InitialEntries(navResult.routes)) = 1
        /\ \A k \in InitialEntries(navResult.routes) :
              Includes(navResult.files.mainApp,
                       "initialRoute: '" \o navResult.routes[k].path \o "'")

\* The values a record holds under a key.
ValuesOf(fields, key) == {fields[k].value : k \in {j \in 1..Len(fields) : fields[j].key = key}}

KeyCount(fields, key) == Cardinality({k \in 1..Len(fields) : fields[k].key = key})

\* C27: every record passed to figuraService.create holds exactly one
\* vistaId, the vistaId of the request, whatever vistaId or other field the
\* LLM's element holds.
C27_RequestVistaIdWins ==
    \A n \in 1..Len(createCalls) :
        /\ KeyCount(createCalls[n].data, "vistaId") = 1
        /\ ValuesOf(createCalls[n].data, "vistaId") = {"\"" \o UIVistaId \o "\""}

\* create was called for an element whose own vistaId is another view's,
\* and its other field went through.
C27_Witness ==
    \E n \in 1..Len(createCalls) :
        /\ ValuesOf(spreadOf(uiElements[n]), "vistaId") = {"\"x9\""}
        /\ ValuesOf(createCalls[n].data, "vistaId") = {"\"v1\""}
        /\ ValuesOf(createCalls[n].data, "tipo") = {"\"text\""}

\* C28 as stated: on every response content, the image path and the prompt
\* path of element extraction fail together or succeed together, and when
\* they succeed they hand the same element sequence to persistence; the
\* empty JSON array included.
C28_PathsTreatContentAlike ==
    uiPc \in {"responded", "parsed", "creating", "returned", "failed"}
        /\ ~contentMissing(uiContent) =>
        LET Alike(image, prompt) ==
                /\ image.thrown = "" <=> prompt.thrown = ""
                /\ image.thrown = "" => image.elements = prompt.elements
        IN  Alike(parseUIElements("image", uiContent.text),
                  parseUIElements("prompt", uiContent.text))

(***************************************************************************)
(* Navigation synthesis for projects whose views have similar names.       *)
(***************************************************************************)
SimilarNames == {"Home", "home", "UserProfile", "User Profile", "Settings"}

\* The lists of 2..MaxViews such views.
SimilarLists ==
    UNION {{[k \in 1..n |-> Vista(k, names[k], TRUE)] : names \in [1..n -> SimilarNames]} :
              n \in 2..MaxViews}

RoutesNext ==
    \/ NavResolve
    \/ NavFindAllFrom(SimilarLists)
    \/ \E k \in 1..MaxViews : k <= Len(vistas) /\ FetchFulfilled(k)
    \/ NavBuild

SpecRoutes == Init /\ [][RoutesNext]_vars

Distinct(seq) == \A i, j \in 1..Len(seq) : i # j => seq[i] # seq[j]

\* C29 as stated: when the display names of the views are pairwise
\* distinct, the route names of the route table are pairwise distinct and so
\* are its route paths.
C29_DistinctNamesDistinctRoutes ==
    navResult.kind = "structure" /\ Distinct([k \in 1..Len(vistas) |-> vistas[k].nombre]) =>
        /\ Distinct([k \in 1..Len(navResult.routes) |-> navResult.routes[k].name])
        /\ Distinct([k \in 1..Len(navResult.routes) |-> navResult.routes[k].path])

(***************************************************************************)
(* The fallback extractor on responses that declare one widget class       *)
(* outside any labelled block, for class names of letters and digits.      *)
(***************************************************************************)
MaxNameLen == 3

NameChars == {"A", "Z", "b", "2"}

RECURSIVE NamesOfLength(_)
NamesOfLength(n) ==
    IF n = 1 THEN {c \in NameChars : IsUpper(c)}
    ELSE {name \o c : name \in NamesOfLength(n - 1), c \in NameChars}

\* Class names that start with an upper-case letter, alone or before the
\* markers the fallback extractor takes for a screen.
ClassNames ==
    {stem \o suffix : stem \in UNION {NamesOfLength(n) : n \in 1..MaxNameLen},
                      suffix \in {"", "Page", "Screen"}}

\* A response that declares the class in running text.
ClassPiece(className) ==
    [kind |-> "loose", name |-> className,
     body |-> "class " \o className \o " extends StatelessWidget {}",
     text |-> "class " \o className \o " extends StatelessWidget {}\n" \o Fence \o "\n"]

InitNames ==
    /\ pc = "responded"
    /\ projectId = ""
    /\ dataImage = NoImage
    /\ imageBase64 = ""
    /\ response \in {<<ClassPiece(className)>> : className \in ClassNames}
    /\ content = [isNull |-> FALSE, text |-> Render(response)]
    /\ codeBlocks = <<>>
    /\ bundle = EmptyBundle
    /\ usedFallback = FALSE
    /\ navigationFiles = NoNavigation
    /\ thrown = ""
    /\ navPc = "idle"
    /\ services = "unresolved"
    /\ found = "pending"
    /\ calls = <<>>
    /\ vistas = <<>>
    /\ settled = <<>>
    /\ figuras = <<>>
    /\ navResult = NoNavigation
    /\ uiPc = "idle"
    /\ uiPath = ""
    /\ uiImage = ""
    /\ uiContent = NoContent
    /\ uiElements = <<>>
    /\ uiIndex = 0
    /\ createCalls = <<>>
    /\ createdFigures = <<>>
    /\ uiThrown = ""
    /\ apiCalls = 1
    /\ ctlPc = "idle"
    /\ ctlRequest = NoRequest
    /\ ctlResult = NoResult
    /\ runs = <<>>

NamesNext ==
    \/ ExtractFileBlocks
    \/ ProcessCodeBlocks
    \/ TakeFallback
    \/ FinishFallback

SpecNames == InitNames /\ [][NamesNext]_vars

\* The artifacts the fallback extractor made of widget classes.
FoundWidgets(b) ==
    [k \in 1..Len(b.screens) |-> b.screens[k].name]
        \o [k \in 1..Len(b.widgets) |-> b.widgets[k].name]

\* C30: for a class name C of letters and digits that starts with an
\* upper-case letter and was found by the fallback extractor,
\* toPascalCase(toSnakeCase(C)) = C and toSnakeCase(toSnakeCase(C)) =
\* toSnakeCase(C); the artifact is named toSnakeCase(C), and when it is the
\* first screen the synthesized main.dart instantiates C().
C30_NamesRoundTrip ==
    pc = "processed" /\ usedFallback /\ Len(response) = 1 /\ response[1].name # "" =>
        LET RoundTrip(C, snake) ==
                /\ FoundWidgets(bundle) = <<snake>>
                /\ toPascalCase(snake) = C
                /\ toSnakeCase(snake) = snake
                /\ Len(bundle.screens) = 1 =>
                      Includes(bundle.mainApp.code, "      home: " \o C \o "(),\n")
        IN  RoundTrip(response[1].name, toSnakeCase(response[1].name))

\* The fallback extractor found the class AZ2Page, named the screen
\* a_z2_page, and the synthesized main.dart instantiates AZ2Page.
C30_Witness ==
    /\ pc = "processed"
    /\ usedFallback
    /\ Len(response) = 1
    /\ response[1].name = "AZ2Page"
    /\ Len(bundle.screens) = 1
    /\ bundle.screens[1].name = "a_z2_page"
    /\ Includes(bundle.mainApp.code, "home: AZ2Page()")
====
